---- MODULE Spec2Model ----
(***************************************************************************)
(* A model of the C-ABI boundary of TursoSharp's native bindings           *)
(* (src/bindings/src/lib.rs).  Host threads call the exported functions on *)
(* opaque handles; every function checks its arguments, runs its body      *)
(* inside std::panic::catch_unwind, takes the wrapper's Mutex where it has *)
(* one, drives the engine, and converts the body's outcome to the value    *)
(* the caller sees.  The engine (turso_core) is an external collaborator:  *)
(* each engine call yields one of the outcomes the code matches on, or     *)
(* panics.                                                                 *)
(***************************************************************************)
EXTENDS Integers, Sequences, FiniteSets, TLC

VARIABLES
    scenario,              \* the host of the run: its threads, the operations it calls
    live,                  \* the handles created and not yet closed
    lock,                  \* Mutex of each wrapper: the thread holding it
    poisoned,              \* Mutex poison flag of each wrapper
    transaction_behavior,  \* ConnectionWrapper.transaction_behavior
    row,                   \* the row a prepared statement is positioned on
    pc,                    \* each thread's position inside a call
    call,                  \* the call a thread is in: operation, handle, argument
    outs,                  \* the outcomes stmt.step() gave so far in the call
    pumps,                 \* how often stmt.run_once() ran in the call
    last,                  \* what ended the body of the thread's call
    ret,                   \* the value the call returned to the host
    crossed,               \* a panic unwound into the host's stack
    kept,                  \* the TursoFFIResult the host keeps, to free its message
    params,                \* the value bound to parameter 1 of each statement
    auto_commit,           \* the engine's autocommit state of each connection
    exhausted              \* a prepared statement stepped to Done and not reset since

vars == <<scenario, live, lock, poisoned, transaction_behavior, row, pc, call,
          outs, pumps, last, ret, crossed, kept, params, auto_commit, exhausted>>

(***************************************************************************)
(* Bounds of the model.                                                    *)
(***************************************************************************)
\* The engine answers IO at most MaxIO times in a row within one call.
MaxIO == 2

Threads == {"t1", "t2"}
NoThread == "none"

\* Handles: one slot of each wrapper kind.  NullHandle is the null pointer.
NullHandle == "null"
Databases == {"db"}
Connections == {"conn"}
Statements == {"stmt"}
RowsHandles == {"rows"}
Handles == Databases \cup Connections \cup Statements \cup RowsHandles
\* The wrappers that embed a Mutex.
Lockable == Connections \cup Statements \cup RowsHandles
Prepared == Statements \cup RowsHandles

(***************************************************************************)
(* Values and messages.                                                    *)
(***************************************************************************)
\* turso_core::Value; a Float is its numerator in tenths, a Blob its length and
\* bytes.  The second Text holds a NUL byte (as char(0) gives one).
Value(tag, i, s) == [tag |-> tag, i |-> i, s |-> s]
Values ==
    { Value("Null", 0, ""), Value("Integer", 42, ""), Value("Float", 15, ""),
      Value("Text", 0, "hello"), Value("Text", 0, "bad\\0text"),
      Value("Blob", 0, ""), Value("Blob", 2, "ab") }
NoRow == Value("NoRow", 0, "")
\* A parameter nothing was bound to.
Unbound == Value("Unbound", 0, "")

\* Texts of turso_core::LimboError; the second holds an interior NUL byte.
LimboErrors == {"no such table: t", "bad\\0text"}
HasNul(text) == text = "bad\\0text"

\* A C string pointer: <<>> is the null pointer, <<prefix, text>> an owned string.
NullMsg == <<>>
NullPtr == "null"

\* Error's Display: the variant's prefix, then its text (SqlExecutionFailure
\* puts the text in backquotes).
MutexError(text) == <<"Mutex lock error: ", text>>
SqlExecutionFailure(text) == <<"SQL execution failure: ", text>>
Literal(text) == <<"", text>>
PoisonText == "poisoned lock: another task failed inside"

\* TursoFFIResult: the envelope, and the other return shapes in one record.
Result(kind, success, msg, ptr, int, out) ==
    [kind |-> kind, success |-> success, error_message |-> msg,
     ptr |-> ptr, int |-> int, out |-> out]

TursoFFIResult_success(out) == Result("envelope", TRUE, NullMsg, NullPtr, 0, out)

\* Faulty variant: no fallback text: the message is null where CString::new fails.
TursoFFIResult_errorNoFallback(message) ==
    Result("envelope", FALSE,
           IF HasNul(message[2]) THEN NullMsg ELSE message,
           NullPtr, 0, <<>>)

\* CString::new fails on an interior NUL; the fallback text is used then.
TursoFFIResult_error(message) ==
    Result("envelope", FALSE,
           IF HasNul(message[2]) THEN Literal("Invalid error message") ELSE message,
           NullPtr, 0, <<>>)

Pointer(p) == Result("pointer", FALSE, NullMsg, p, 0, <<>>)
I32(n) == Result("i32", FALSE, NullMsg, NullPtr, n, <<>>)
I64(n) == Result("i64", FALSE, NullMsg, NullPtr, n, <<>>)
F64(n) == Result("f64", FALSE, NullMsg, NullPtr, n, <<>>)
Bool(b) == Result("bool", FALSE, NullMsg, NullPtr, IF b THEN 1 ELSE 0, <<>>)
NoRet == Result("none", FALSE, NullMsg, NullPtr, 0, <<>>)

NoCall == [op |-> "none", h |-> NullHandle, arg |-> 0, val |-> NoRow, sql |-> ""]

(***************************************************************************)
(* The exported operations, by return shape and by the shape of the body.  *)
(***************************************************************************)
OpenOps ==
    {"turso_database_open_memory", "turso_database_open_file", "turso_connection_open"}
CloseOps ==
    {"turso_database_close", "turso_connection_close", "turso_rows_close",
     "turso_statement_finalize"}
TransactionOps ==
    {"turso_connection_begin_transaction", "turso_connection_commit_transaction",
     "turso_connection_rollback_transaction"}
\* prepare, then the step loop, all under the connection's lock
ConnLoopOps ==
    {"turso_connection_execute", "turso_connection_query_scalar_int",
     "turso_connection_query_scalar_string"} \cup TransactionOps
\* prepare under the connection's lock, the statement handed out in a new wrapper
PrepareOps == {"turso_connection_query", "turso_connection_prepare"}
\* the step loop under the statement's lock
StepOps == {"turso_rows_next", "turso_statement_step"}
LoopOps == ConnLoopOps \cup StepOps
ColumnCountOps == {"turso_rows_column_count", "turso_statement_column_count"}
ColumnNameOps == {"turso_rows_column_name", "turso_statement_column_name"}
ColumnTypeOps == {"turso_rows_column_type", "turso_statement_column_type"}
ColumnInt64Ops == {"turso_rows_column_int64", "turso_statement_column_int64"}
ColumnDoubleOps == {"turso_rows_column_double", "turso_statement_column_double"}
ColumnTextOps == {"turso_rows_column_text", "turso_statement_column_text"}
ColumnIsNullOps == {"turso_rows_column_is_null", "turso_statement_column_is_null"}
ColumnBlobOps == {"turso_rows_column_blob", "turso_statement_column_blob"}
ColumnValueOps ==
    ColumnTypeOps \cup ColumnInt64Ops \cup ColumnDoubleOps \cup ColumnTextOps
    \cup ColumnIsNullOps \cup ColumnBlobOps
BindOps ==
    {"turso_statement_bind_int64", "turso_statement_bind_double",
     "turso_statement_bind_text", "turso_statement_bind_blob",
     "turso_statement_bind_null"}
\* one engine call under the wrapper's lock
SingleOps ==
    ColumnCountOps \cup ColumnNameOps \cup ColumnValueOps \cup BindOps
    \cup {"turso_statement_reset", "turso_connection_is_autocommit"}
LockOps == LoopOps \cup PrepareOps \cup SingleOps
\* the operations on a Rows handle and on a Statement handle, but for the close
RowsOps ==
    {"turso_rows_next", "turso_rows_column_count", "turso_rows_column_name",
     "turso_rows_column_type", "turso_rows_column_int64", "turso_rows_column_double",
     "turso_rows_column_text", "turso_rows_column_is_null", "turso_rows_column_blob"}
StatementOps ==
    {"turso_statement_step", "turso_statement_column_count",
     "turso_statement_column_name", "turso_statement_column_type",
     "turso_statement_column_int64", "turso_statement_column_double",
     "turso_statement_column_text", "turso_statement_column_is_null",
     "turso_statement_column_blob", "turso_statement_reset"} \cup BindOps
Ops == OpenOps \cup CloseOps \cup LockOps
\* the functions that release memory handed to the caller; they return nothing
FreeOps == {"turso_free_string", "turso_free_blob", "turso_free_error_message"}
Exported == Ops \cup FreeOps

\* The Rows function exported for the same work as a Statement function;
\* "none" where the library exports no such function.
RowsOperation(op) ==
    CASE op = "turso_statement_step" -> "turso_rows_next"
      [] op = "turso_statement_finalize" -> "turso_rows_close"
      [] op = "turso_statement_column_count" -> "turso_rows_column_count"
      [] op = "turso_statement_column_name" -> "turso_rows_column_name"
      [] op = "turso_statement_column_type" -> "turso_rows_column_type"
      [] op = "turso_statement_column_int64" -> "turso_rows_column_int64"
      [] op = "turso_statement_column_double" -> "turso_rows_column_double"
      [] op = "turso_statement_column_text" -> "turso_rows_column_text"
      [] op = "turso_statement_column_is_null" -> "turso_rows_column_is_null"
      [] op = "turso_statement_column_blob" -> "turso_rows_column_blob"
      [] OTHER -> "none"

EnvelopeOps ==
    CloseOps \cup TransactionOps \cup BindOps
    \cup {"turso_connection_execute", "turso_connection_query_scalar_int",
          "turso_statement_reset", "turso_connection_is_autocommit"}
PointerOps ==
    OpenOps \cup PrepareOps \cup ColumnNameOps \cup ColumnTextOps \cup ColumnBlobOps
    \cup {"turso_connection_query_scalar_string"}
I32Ops == StepOps \cup ColumnCountOps \cup ColumnTypeOps

\* Faulty variant: turso_statement_step runs its body without the barrier.
BarrierOpsButStep == Ops \ {"turso_statement_step"}

\* The operations whose body runs inside std::panic::catch_unwind.
BarrierOps == Ops

\* The text of the envelope returned for a null or invalid argument.
InvalidText(op) ==
    CASE op = "turso_database_close" -> "Database pointer is null"
      [] op \in {"turso_connection_close"} \cup TransactionOps -> "Connection pointer is null"
      [] op = "turso_rows_close" -> "Rows pointer is null"
      [] op \in {"turso_statement_finalize", "turso_statement_reset"} ->
            "Statement pointer is null"
      [] OTHER -> "Invalid parameters"

\* The text the barrier reports for a caught panic ("Panic in ...").
PanicText(op) ==
    CASE op = "turso_database_close" -> "Panic in database_close"
      [] op = "turso_connection_close" -> "Panic in connection_close"
      [] op = "turso_connection_execute" -> "Panic in connection_execute"
      [] op = "turso_connection_query_scalar_int" -> "Panic in query_scalar_int"
      [] op = "turso_rows_close" -> "Panic in rows_close"
      [] op = "turso_statement_finalize" -> "Panic in statement_finalize"
      [] op = "turso_statement_bind_int64" -> "Panic in statement_bind_int64"
      [] op = "turso_statement_bind_double" -> "Panic in statement_bind_double"
      [] op = "turso_statement_bind_text" -> "Panic in statement_bind_text"
      [] op = "turso_statement_bind_blob" -> "Panic in statement_bind_blob"
      [] op = "turso_statement_bind_null" -> "Panic in statement_bind_null"
      [] op = "turso_statement_reset" -> "Panic in statement_reset"
      [] op = "turso_connection_begin_transaction" -> "Panic in begin_transaction"
      [] op = "turso_connection_commit_transaction" -> "Panic in commit_transaction"
      [] op = "turso_connection_rollback_transaction" -> "Panic in rollback_transaction"
      [] op = "turso_connection_is_autocommit" -> "Panic in is_autocommit"
      [] OTHER -> "Panic"

\* Faulty variant: turso_rows_next alone falls back to 0 (unwrap_or(0)).
SentinelRowsZero(op) ==
    CASE op \in PointerOps -> Pointer(NullPtr)
      [] op \in I32Ops -> I32(IF op = "turso_rows_next" THEN 0 ELSE -1)
      [] op \in ColumnInt64Ops -> I64(0)
      [] op \in ColumnDoubleOps -> F64(0)
      [] op \in ColumnIsNullOps -> Bool(TRUE)
      [] OTHER -> NoRet

\* Faulty variant: the integer operations fall back to 0 (unwrap_or(0)).
SentinelZero(op) ==
    CASE op \in PointerOps -> Pointer(NullPtr)
      [] op \in I32Ops -> I32(0)
      [] op \in ColumnInt64Ops -> I64(0)
      [] op \in ColumnDoubleOps -> F64(0)
      [] op \in ColumnIsNullOps -> Bool(TRUE)
      [] OTHER -> NoRet

\* The return value that stands for failure, by return type: the value of the
\* early returns and of the unwrap_or defaults.
Sentinel(op) ==
    CASE op \in PointerOps -> Pointer(NullPtr)
      [] op \in I32Ops -> I32(-1)
      [] op \in ColumnInt64Ops -> I64(0)
      [] op \in ColumnDoubleOps -> F64(0)
      [] op \in ColumnIsNullOps -> Bool(TRUE)
      [] OTHER -> NoRet

\* Faulty variant: an envelope operation treats a null handle as nothing to do.
EarlyReturnSuccess(op) ==
    IF op \in EnvelopeOps
    THEN TursoFFIResult_success(<<>>)
    ELSE Sentinel(op)

\* The early return for a null handle or an argument rejected before the body.
EarlyReturn(op) ==
    IF op \in EnvelopeOps
    THEN TursoFFIResult_error(Literal(InvalidText(op)))
    ELSE Sentinel(op)

(***************************************************************************)
(* How a body ends, and what the boundary returns for it.                  *)
(***************************************************************************)
\* The end of a body: what happened, the engine's error text, the column value
\* read, an integer the engine reported, the handle created.
End(tag, text, val, n, p) == [tag |-> tag, text |-> text, val |-> val, n |-> n, p |-> p]
EndTag(tag) == End(tag, "", NoRow, 0, NullPtr)
EndErr(tag, text) == End(tag, text, NoRow, 0, NullPtr)
NoEnd == EndTag("none")

\* An owned C string handed to the caller.
String(s) == Result("pointer", FALSE, NullMsg, "string", 0, <<s>>)
\* CString::new(text).ok().map(into_raw): no string for a text with a NUL byte.
CStringOrNull(s) == IF HasNul(s) THEN Pointer(NullPtr) ELSE String(s)

\* i64::to_string and f64::to_string of the values of the model.
IntToString(i) == IF i = 42 THEN "42" ELSE "0"
\* Faulty variant: the number is written without its decimal point.
FloatToStringDigits(f) == IF f = 15 THEN "15" ELSE "0"

FloatToString(f) == IF f = 15 THEN "1.5" ELSE "0"

\* Faulty variant: the tags of SQLite's fundamental datatypes (NULL is 5).
TypeTagSqlite(v) ==
    CASE v.tag = "Null" -> 5
      [] v.tag = "Integer" -> 1
      [] v.tag = "Float" -> 2
      [] v.tag = "Text" -> 3
      [] v.tag = "Blob" -> 4

\* column_type's match on the value.
TypeTag(v) ==
    CASE v.tag = "Null" -> 0
      [] v.tag = "Integer" -> 1
      [] v.tag = "Float" -> 2
      [] v.tag = "Text" -> 3
      [] v.tag = "Blob" -> 4

\* Faulty variant: column_is_null tells of a Null value only, not of a missing row.
ColumnValueNullOnly(op, v) ==
    CASE op \in ColumnTypeOps -> IF v = NoRow THEN I32(-1) ELSE I32(TypeTag(v))
      [] op \in ColumnInt64Ops -> IF v.tag = "Integer" THEN I64(v.i) ELSE I64(0)
      [] op \in ColumnDoubleOps ->
            IF v.tag = "Float" THEN F64(v.i)
            ELSE IF v.tag = "Integer" THEN F64(10 * v.i) ELSE F64(0)
      [] op \in ColumnTextOps ->
            CASE v.tag = "Text" -> CStringOrNull(v.s)
              [] v.tag = "Integer" -> CStringOrNull(IntToString(v.i))
              [] v.tag = "Float" -> CStringOrNull(FloatToString(v.i))
              [] OTHER -> Pointer(NullPtr)
      [] op \in ColumnIsNullOps -> Bool(v.tag = "Null")
      [] op \in ColumnBlobOps ->
            IF v.tag = "Blob"
            THEN Result("pointer", FALSE, NullMsg,
                        IF v.i = 0 THEN NullPtr ELSE "blob", 0, <<v.i>>)
            ELSE Result("pointer", FALSE, NullMsg, NullPtr, 0, <<0>>)

\* The column accessors' match on stmt.row() and on the value.
ColumnValue(op, v) ==
    CASE op \in ColumnTypeOps -> IF v = NoRow THEN I32(-1) ELSE I32(TypeTag(v))
      [] op \in ColumnInt64Ops -> IF v.tag = "Integer" THEN I64(v.i) ELSE I64(0)
      [] op \in ColumnDoubleOps ->
            IF v.tag = "Float" THEN F64(v.i)
            ELSE IF v.tag = "Integer" THEN F64(10 * v.i) ELSE F64(0)
      [] op \in ColumnTextOps ->
            CASE v.tag = "Text" -> CStringOrNull(v.s)
              [] v.tag = "Integer" -> CStringOrNull(IntToString(v.i))
              [] v.tag = "Float" -> CStringOrNull(FloatToString(v.i))
              [] OTHER -> Pointer(NullPtr)
      [] op \in ColumnIsNullOps -> Bool(v = NoRow \/ v.tag = "Null")
      [] op \in ColumnBlobOps ->
            IF v.tag = "Blob"
            THEN Result("pointer", FALSE, NullMsg,
                        IF v.i = 0 THEN NullPtr ELSE "blob", 0, <<v.i>>)
            ELSE Result("pointer", FALSE, NullMsg, NullPtr, 0, <<0>>)

\* Faulty variant: a failing envelope operation zeroes its out-parameter.
FailureZeroed(op, message) ==
    CASE op \in EnvelopeOps -> [TursoFFIResult_error(message) EXCEPT !.out = <<0>>]
      [] op \in ColumnBlobOps -> Result("pointer", FALSE, NullMsg, NullPtr, 0, <<0>>)
      [] OTHER -> Sentinel(op)

\* The failure return of an operation whose body ended in an error.
Failure(op, message) ==
    CASE op \in EnvelopeOps -> TursoFFIResult_error(message)
      [] op \in ColumnBlobOps -> Result("pointer", FALSE, NullMsg, NullPtr, 0, <<0>>)
      [] OTHER -> Sentinel(op)

\* The text reported when a step yields Row where no row is expected.
UnexpectedRowText(op) ==
    CASE op = "turso_connection_execute" -> "unexpected row during execution"
      [] op = "turso_connection_begin_transaction" ->
            "unexpected row during transaction begin"
      [] op = "turso_connection_commit_transaction" -> "unexpected row during commit"
      [] op = "turso_connection_rollback_transaction" -> "unexpected row during rollback"

\* Faulty variant: execute ignores the row and reports success.
OnRowIgnored(op, c, l) ==
    CASE op \in StepOps -> I32(1)
      [] op = "turso_connection_query_scalar_int" ->
            IF l.val = NoRow
            THEN TursoFFIResult_error(SqlExecutionFailure("No row data available"))
            ELSE IF l.val.tag = "Integer"
                 THEN TursoFFIResult_success(<<l.val.i>>)
                 ELSE TursoFFIResult_error(SqlExecutionFailure("Expected integer value"))
      [] op = "turso_connection_query_scalar_string" ->
            IF l.val.tag = "Text" THEN CStringOrNull(l.val.s) ELSE Pointer(NullPtr)
      [] OTHER -> TursoFFIResult_success(<<>>)

\* Faulty variant: query_scalar_int takes the number of a Float as well.
OnRowAnyNumber(op, c, l) ==
    CASE op \in StepOps -> I32(1)
      [] op = "turso_connection_query_scalar_int" ->
            IF l.val = NoRow
            THEN TursoFFIResult_error(SqlExecutionFailure("No row data available"))
            ELSE IF l.val.tag \in {"Integer", "Float"}
                 THEN TursoFFIResult_success(<<l.val.i>>)
                 ELSE TursoFFIResult_error(SqlExecutionFailure("Expected integer value"))
      [] op = "turso_connection_query_scalar_string" ->
            IF l.val.tag = "Text" THEN CStringOrNull(l.val.s) ELSE Pointer(NullPtr)
      [] OTHER -> TursoFFIResult_error(SqlExecutionFailure(UnexpectedRowText(op)))

\* The match arm for StepResult::Row.
OnRow(op, c, l) ==
    CASE op \in StepOps -> I32(1)
      [] op = "turso_connection_query_scalar_int" ->
            IF l.val = NoRow
            THEN TursoFFIResult_error(SqlExecutionFailure("No row data available"))
            ELSE IF l.val.tag = "Integer"
                 THEN TursoFFIResult_success(<<l.val.i>>)
                 ELSE TursoFFIResult_error(SqlExecutionFailure("Expected integer value"))
      [] op = "turso_connection_query_scalar_string" ->
            IF l.val.tag = "Text" THEN CStringOrNull(l.val.s) ELSE Pointer(NullPtr)
      [] OTHER -> TursoFFIResult_error(SqlExecutionFailure(UnexpectedRowText(op)))

\* Faulty variant: execute writes changes.min(0).
OnDoneMin(op, c, l) ==
    CASE op \in StepOps -> I32(0)
      [] op = "turso_connection_execute" ->
            TursoFFIResult_success(
                IF c.arg = 1 THEN <<IF l.n < 0 THEN l.n ELSE 0>> ELSE <<>>)
      [] op = "turso_connection_query_scalar_int" ->
            TursoFFIResult_error(SqlExecutionFailure("No rows returned"))
      [] op = "turso_connection_query_scalar_string" -> Pointer(NullPtr)
      [] OTHER -> TursoFFIResult_success(<<>>)

\* The match arm for StepResult::Done.
OnDone(op, c, l) ==
    CASE op \in StepOps -> I32(0)
      [] op = "turso_connection_execute" ->
            \* c.arg = 1: the rows_changed pointer is not null
            TursoFFIResult_success(
                IF c.arg = 1 THEN <<IF l.n > 0 THEN l.n ELSE 0>> ELSE <<>>)
      [] op = "turso_connection_query_scalar_int" ->
            TursoFFIResult_error(SqlExecutionFailure("No rows returned"))
      [] op = "turso_connection_query_scalar_string" -> Pointer(NullPtr)
      [] OTHER -> TursoFFIResult_success(<<>>)

\* The value of a body that ran to its end without an error.
OnOk(op, c, l) ==
    CASE op \in OpenOps \cup PrepareOps -> Pointer(l.p)
      [] op \in FreeOps -> NoRet
      [] op \in ColumnCountOps -> I32(l.n)
      [] op \in ColumnNameOps -> CStringOrNull(l.text)
      [] op \in ColumnValueOps -> ColumnValue(op, l.val)
      [] op = "turso_connection_is_autocommit" -> TursoFFIResult_success(<<l.n>>)
      [] OTHER -> TursoFFIResult_success(<<>>)

\* What the body's result is turned into once the barrier returned Ok.
OnBody(op, c, l) ==
    CASE l.tag = "row" -> OnRow(op, c, l)
      [] l.tag = "done" -> OnDone(op, c, l)
      [] l.tag = "ok" -> OnOk(op, c, l)
      [] l.tag = "lock_error" -> Failure(op, MutexError(PoisonText))
      [] l.tag = "invalid_utf8" ->
            Failure(op, SqlExecutionFailure(
                IF op = "turso_statement_bind_text"
                THEN "Invalid UTF-8 string" ELSE "Invalid SQL string"))
      [] l.tag = "invalid_behavior" ->
            Failure(op, SqlExecutionFailure("Invalid transaction behavior"))
      [] l.tag = "busy" -> Failure(op, SqlExecutionFailure("database is locked"))
      [] l.tag = "interrupt" -> Failure(op, SqlExecutionFailure("interrupted"))
      [] l.tag \in {"prepare_error", "step_error", "io_error", "engine_error"} ->
            Failure(op, SqlExecutionFailure(l.text))

\* catch_unwind and the conversion after it: a panic caught by the barrier
\* becomes the operation's failure value.
Boundary(op, c, l) ==
    IF l.tag = "panic"
    THEN Failure(op, SqlExecutionFailure(PanicText(op)))
    ELSE OnBody(op, c, l)

\* A panic leaves the function only where no barrier stands.
Escapes(op, l) == l.tag = "panic" /\ op \notin BarrierOps

(***************************************************************************)
(* The state after the library is loaded: no handle exists.                *)
(***************************************************************************)
InitState ==
    /\ live = scenario.live
    /\ lock = [h \in Lockable |-> NoThread]
    /\ poisoned = [h \in Lockable |-> FALSE]
    /\ transaction_behavior = [h \in Connections |-> "Deferred"]
    /\ row = [h \in Prepared |-> NoRow]
    /\ pc = [t \in Threads |-> "idle"]
    /\ call = [t \in Threads |-> NoCall]
    /\ outs = [t \in Threads |-> <<>>]
    /\ pumps = [t \in Threads |-> 0]
    /\ last = [t \in Threads |-> NoEnd]
    /\ ret = [t \in Threads |-> NoRet]
    /\ crossed = [t \in Threads |-> FALSE]
    /\ kept = scenario.kept
    /\ params = [h \in Statements |-> Unbound]
    /\ auto_commit = [h \in Connections |-> TRUE]
    /\ exhausted = [h \in Prepared |-> FALSE]

\* The behavior arguments tried: 0, 1, 2 are the modes, the others are invalid.
Behaviors == {-1, 0, 1, 2, 3}

\* A host of the run: the operations each of its threads calls, and the
\* handles it holds at the start (each created by a successful open, connect,
\* prepare or query, and not used since); its statement has one result column.
Scenario(ops1, ops2, handles) ==
    [ops |-> [t \in Threads |-> IF t = "t1" THEN ops1 ELSE ops2], live |-> handles,
     kept |-> TursoFFIResult_success(<<>>), sql |-> "any", columns |-> 1, values |-> Values,
     behaviors |-> [t \in Threads |-> Behaviors]]

\* A host whose statement is "SELECT ?1": one parameter, selected back.
SelectScenario ==
    [Scenario(StatementOps, {}, {"db", "conn", "stmt"}) EXCEPT !.sql = "SELECT ?1"]

\* A host that frees what it was given; it keeps the envelope of an earlier call.
FreeScenario(envelope) ==
    [ops |-> [t \in Threads |-> IF t = "t1" THEN FreeOps ELSE {}], live |-> {},
     kept |-> envelope, sql |-> "any", columns |-> 1, values |-> Values,
     behaviors |-> [t \in Threads |-> Behaviors]]

\* A host that begins and commits transactions and asks for the autocommit
\* state in between.
TransactionScenario ==
    Scenario({"turso_connection_begin_transaction",
              "turso_connection_commit_transaction",
              "turso_connection_is_autocommit"}, {}, {"db", "conn"})

\* The hosts that call from one thread.
Hosts ==
    { Scenario(OpenOps \cup CloseOps \cup PrepareOps, {}, {}),
      Scenario(ConnLoopOps \cup {"turso_connection_is_autocommit"}, {}, {"db", "conn"}),
      Scenario(StatementOps, {}, {"db", "conn", "stmt"}),
      Scenario(RowsOps, {}, {"db", "conn", "rows"}),
      [Scenario({"turso_rows_next", "turso_rows_column_count",
                 "turso_rows_column_name", "turso_rows_column_type"},
                {}, {"db", "conn", "rows"}) EXCEPT !.columns = 0],
      SelectScenario, TransactionScenario,
      FreeScenario(TursoFFIResult_success(<<>>)),
      FreeScenario(TursoFFIResult_error(Literal("Invalid parameters"))) }

Init == scenario \in Hosts /\ InitState

\* The hosts that call from two threads at once; the host that binds a
\* statement's parameter and reads its columns calls from one.
ConcHosts ==
    { Scenario(OpenOps \cup CloseOps \cup PrepareOps,
               {"turso_connection_prepare", "turso_statement_finalize"}, {}),
      Scenario({"turso_connection_query_scalar_int",
                "turso_connection_query_scalar_string",
                "turso_connection_commit_transaction",
                "turso_connection_rollback_transaction"}, {}, {"db", "conn"}),
      [Scenario({"turso_connection_begin_transaction"},
                {"turso_connection_begin_transaction"}, {"db", "conn"})
            EXCEPT !.behaviors = [t \in Threads |-> IF t = "t1" THEN {1} ELSE {2}]],
      Scenario({"turso_connection_execute", "turso_statement_reset"},
               {"turso_statement_column_type", "turso_connection_is_autocommit"},
               {"db", "conn", "stmt"}),
      Scenario(StatementOps \ {"turso_statement_step"}, {}, {"db", "conn", "stmt"}),
      Scenario(RowsOps \ {"turso_rows_next"}, {}, {"db", "conn", "rows"}),
      Scenario({"turso_rows_close", "turso_rows_column_count", "turso_rows_column_blob"},
               {"turso_statement_finalize", "turso_statement_column_count",
                "turso_statement_column_blob"},
               {"db", "conn", "rows", "stmt"}),
      [Scenario({"turso_statement_step", "turso_statement_column_text"},
                {"turso_rows_next", "turso_rows_column_text"},
                {"db", "conn", "rows", "stmt"})
            EXCEPT !.values = {Value("Text", 0, "hello")}],
      [Scenario(FreeOps, {"turso_free_string"}, {})
            EXCEPT !.kept = TursoFFIResult_error(Literal("Invalid parameters"))] }

ConcInit == scenario \in ConcHosts /\ InitState

(***************************************************************************)
(* Steps every call is made of.                                            *)
(***************************************************************************)
Call(op, h, arg) == [op |-> op, h |-> h, arg |-> arg, val |-> NoRow, sql |-> ""]
\* A bind: val is the value argument as the caller passes it (for a blob: the
\* length and the data pointer, "null" for the null pointer).
Bind(op, h, arg, v) == [op |-> op, h |-> h, arg |-> arg, val |-> v, sql |-> ""]

\* The handles of a kind a caller may pass: the live ones, or the null pointer.
\* (Use of a closed handle is the caller's error and undefined.)
Args(kind) == (live \cap kind) \cup {NullHandle}

\* The string pointers a caller may pass.
StringArgs == {"null", "invalid_utf8", "valid"}

\* The thread's own variables at the end of a step.
Local(t, p, c, o, n, l, r, x) ==
    /\ pc' = [pc EXCEPT ![t] = p]
    /\ call' = [call EXCEPT ![t] = c]
    /\ outs' = [outs EXCEPT ![t] = o]
    /\ pumps' = [pumps EXCEPT ![t] = n]
    /\ last' = [last EXCEPT ![t] = l]
    /\ ret' = [ret EXCEPT ![t] = r]
    /\ crossed' = [crossed EXCEPT ![t] = x]

\* The call returns before its body: a null or rejected argument.
Early(t, c) ==
    /\ pc[t] = "idle" /\ c.op \in scenario.ops[t]
    /\ Local(t, "done", c, <<>>, 0, EndTag("invalid_arg"), EarlyReturn(c.op), FALSE)
    /\ UNCHANGED <<scenario, auto_commit, exhausted, kept, params, live, lock, poisoned, transaction_behavior, row>>

\* The body runs to its end without taking a lock.
Ends(t, c, l) ==
    /\ pc[t] = "idle" /\ c.op \in scenario.ops[t]
    /\ Local(t, "done", c, <<>>, 0, l, Boundary(c.op, c, l), Escapes(c.op, l))
    /\ UNCHANGED scenario

\* The body is entered and goes on to lock the wrapper's Mutex.
Enter(t, c) ==
    /\ pc[t] = "idle" /\ c.op \in scenario.ops[t]
    /\ Local(t, "lock", c, <<>>, 0, NoEnd, NoRet, FALSE)
    /\ UNCHANGED <<scenario, auto_commit, exhausted, kept, params, live, lock, poisoned, row>>

\* Faulty variant: the Mutex is unlocked by hand at the end of the body, which a
\* panic never reaches.
DropGuardUnlessPanic(t, panicking) ==
    IF panicking
    THEN UNCHANGED <<lock, poisoned>>
    ELSE /\ lock' = [h \in Lockable |-> IF lock[h] = t THEN NoThread ELSE lock[h]]
         /\ UNCHANGED poisoned

\* MutexGuard's drop as the body is left: the Mutex is unlocked, and poisoned
\* if the thread is unwinding from a panic.
DropGuard(t, panicking) ==
    /\ lock' = [h \in Lockable |-> IF lock[h] = t THEN NoThread ELSE lock[h]]
    /\ poisoned' = [h \in Lockable |-> poisoned[h] \/ (lock[h] = t /\ panicking)]

\* The body ends with l: the guard is dropped, the barrier and the conversion
\* after it produce the return value.
Finish(t, o, n, l) ==
    /\ DropGuard(t, l.tag = "panic")
    /\ Local(t, "done", call[t], o, n, l, Boundary(call[t].op, call[t], l),
             Escapes(call[t].op, l))

\* The first engine call of the body once the lock is held.
FirstPhase(op) ==
    CASE op \in ConnLoopOps \cup PrepareOps -> "prepare"
      [] op \in StepOps -> "step"
      [] op \in SingleOps -> "engine"

\* Faulty variant: the body goes on to the engine without waiting for the Mutex.
AcquireNoWait(t) ==
    /\ pc[t] = "lock"
    /\ lock' = [lock EXCEPT ![call[t].h] = t]
    /\ pc' = [pc EXCEPT ![t] = FirstPhase(call[t].op)]
    /\ UNCHANGED <<poisoned, call, outs, pumps, last, ret, crossed>>
    /\ UNCHANGED <<scenario, auto_commit, exhausted, kept, params, live, transaction_behavior, row>>

\* Faulty variant: Mutex::lock's result is unwrapped: a poisoned Mutex is a panic
\* inside the body.
AcquireUnwrap(t) ==
    /\ pc[t] = "lock"
    /\ lock[call[t].h] = NoThread
    /\ IF poisoned[call[t].h]
       THEN /\ Local(t, "done", call[t], outs[t], pumps[t], EndTag("panic"),
                     Boundary(call[t].op, call[t], EndTag("panic")), FALSE)
            /\ UNCHANGED <<lock, poisoned>>
       ELSE /\ lock' = [lock EXCEPT ![call[t].h] = t]
            /\ pc' = [pc EXCEPT ![t] = FirstPhase(call[t].op)]
            /\ UNCHANGED <<poisoned, call, outs, pumps, last, ret, crossed>>
    /\ UNCHANGED <<scenario, auto_commit, exhausted, kept, params, live, transaction_behavior, row>>

\* Faulty variant: an operation on a statement locks the statement and then,
\* still holding it, the connection the statement was made from.
AcquireConnectionToo(t) ==
    /\ pc[t] = "lock"
    /\ lock[call[t].h] = NoThread
    /\ IF poisoned[call[t].h]
       THEN /\ Local(t, "done", call[t], outs[t], pumps[t], EndTag("lock_error"),
                     Boundary(call[t].op, call[t], EndTag("lock_error")), FALSE)
            /\ UNCHANGED <<lock, poisoned>>
       ELSE /\ lock' = [h \in Lockable |->
                            IF h = call[t].h \/ (h = "conn" /\ call[t].h \in Prepared
                                                 /\ lock["conn"] = NoThread)
                            THEN t ELSE lock[h]]
            /\ pc' = [pc EXCEPT ![t] = FirstPhase(call[t].op)]
            /\ UNCHANGED <<poisoned, call, outs, pumps, last, ret, crossed>>
    /\ UNCHANGED <<scenario, auto_commit, exhausted, kept, params, live, transaction_behavior, row>>

\* Faulty variant: a statement made from a connection uses the connection's Mutex.
MutexOfConnection(h) == IF h \in Prepared THEN "conn" ELSE h

\* The Mutex a wrapper's operations lock: the one made with the wrapper, by
\* Arc::new(Mutex::new(..)), and named here by the wrapper's handle.
MutexOf(h) == h

\* Mutex::lock: waits until the Mutex is free; on a poisoned Mutex the error
\* (and the guard inside it) is dropped at once and the body ends.
Acquire(t) ==
    /\ pc[t] = "lock"
    /\ lock[MutexOf(call[t].h)] = NoThread
    /\ IF poisoned[MutexOf(call[t].h)]
       THEN /\ Local(t, "done", call[t], outs[t], pumps[t], EndTag("lock_error"),
                     Boundary(call[t].op, call[t], EndTag("lock_error")), FALSE)
            /\ UNCHANGED <<lock, poisoned>>
       ELSE /\ lock' = [lock EXCEPT ![MutexOf(call[t].h)] = t]
            /\ pc' = [pc EXCEPT ![t] = FirstPhase(call[t].op)]
            /\ UNCHANGED <<poisoned, call, outs, pumps, last, ret, crossed>>
    /\ UNCHANGED <<scenario, auto_commit, exhausted, kept, params, live, transaction_behavior, row>>

\* The caller takes the returned value; the thread is free for its next call.
\* (A panic that unwound out of an extern "C" function ends the host: there is
\* no next call.)
Return(t) ==
    /\ pc[t] = "done" /\ ~crossed[t]
    /\ Local(t, "idle", NoCall, <<>>, 0, NoEnd, NoRet, crossed[t])
    /\ UNCHANGED <<scenario, auto_commit, exhausted, kept, params, live, lock, poisoned, transaction_behavior, row>>

(***************************************************************************)
(* The engine calls made under a lock.                                     *)
(***************************************************************************)
\* The change counts Statement::n_change may report: the number of rows the
\* statement changed.
Changes == {0, 1}
\* The index is one of a result column of the host's statement; row.get_value
\* and get_column_name take no other.
InRange(column_index) == column_index < scenario.columns
\* The names Statement::get_column_name may report: they come from SQL text,
\* which reaches the engine as a C string and so holds no NUL byte.
ColumnNames == {"x", "id"}

IOCount(o) == Cardinality({i \in 1..Len(o) : o[i] = "IO"})

\* TransactionBehavior of the behavior argument.
Behavior(b) ==
    CASE b = 0 -> "Deferred"
      [] b = 1 -> "Immediate"
      [] b = 2 -> "Exclusive"

\* Faulty variant: Immediate and Exclusive begin with each other's statement.
BeginSqlSwapped(behavior) ==
    CASE behavior = "Deferred" -> "BEGIN DEFERRED"
      [] behavior = "Immediate" -> "BEGIN EXCLUSIVE"
      [] behavior = "Exclusive" -> "BEGIN IMMEDIATE"

\* The statement begin_transaction prepares for a mode.
BeginSql(behavior) ==
    CASE behavior = "Deferred" -> "BEGIN DEFERRED"
      [] behavior = "Immediate" -> "BEGIN IMMEDIATE"
      [] behavior = "Exclusive" -> "BEGIN EXCLUSIVE"

\* The text a call hands to conn.prepare: the control statement of a
\* transaction operation, the caller's text otherwise.
Sql(c) ==
    CASE c.op = "turso_connection_begin_transaction" -> BeginSql(Behavior(c.arg))
      [] c.op = "turso_connection_commit_transaction" -> "COMMIT"
      [] c.op = "turso_connection_rollback_transaction" -> "ROLLBACK"
      [] OTHER -> scenario.sql

\* conn.prepare(sql) under the connection's lock; call[t].sql keeps the text
\* of the statement the step loop then drives.
Prepare(t) ==
    /\ pc[t] = "prepare"
    /\ \/ /\ call[t].op \in ConnLoopOps
          /\ pc' = [pc EXCEPT ![t] = "step"]
          /\ call' = [call EXCEPT ![t].sql = Sql(call[t])]
          /\ UNCHANGED <<live, lock, poisoned, outs, pumps, last, ret, crossed>>
       \/ /\ call[t].op \in PrepareOps
          /\ \E h \in (IF call[t].op = "turso_connection_query"
                       THEN RowsHandles ELSE Statements) \ live :
                /\ live' = live \cup {h}
                /\ Finish(t, outs[t], pumps[t], End("ok", "", NoRow, 0, h))
       \/ /\ \E text \in LimboErrors :
                Finish(t, outs[t], pumps[t], EndErr("prepare_error", text))
          /\ UNCHANGED live
       \/ /\ Finish(t, outs[t], pumps[t], EndTag("panic"))
          /\ UNCHANGED live
    /\ UNCHANGED <<scenario, auto_commit, exhausted, kept, params, transaction_behavior, row>>

\* The statement's current row after a step: only a Row outcome leaves one.
SetRow(t, v) ==
    IF call[t].op \in StepOps
    THEN row' = [row EXCEPT ![call[t].h] = v]
    ELSE UNCHANGED row

\* The value of column 0 of the row a step yields, where the operation reads
\* or keeps it; execute and the transaction operations never look at the row.
RowValues(op) ==
    IF op \in TransactionOps \cup {"turso_connection_execute"}
    THEN {NoRow} ELSE scenario.values

\* The engine's evaluation of "SELECT ?1": the row holds the value bound to
\* the parameter, NULL where nothing is bound.
Selected(v) == IF v = Unbound THEN Value("Null", 0, "") ELSE v

\* The rows a step of the thread's statement may yield: none once the
\* statement is at Done, until it is reset; "SELECT ?1" has one row.
StepValues(t) ==
    CASE call[t].op \in StepOps /\ exhausted[call[t].h] -> {}
      [] scenario.sql = "SELECT ?1" /\ call[t].h \in Statements ->
            IF row[call[t].h] = NoRow THEN {Selected(params[call[t].h])} ELSE {}
      [] OTHER -> RowValues(call[t].op)

\* Faulty variant: bind_text hands the bytes to the engine as a blob.
BindValueTextAsBlob(c) ==
    CASE c.op = "turso_statement_bind_blob" ->
            IF c.val.i = 0 THEN Value("Blob", 0, "") ELSE Value("Blob", c.val.i, c.val.s)
      [] c.op = "turso_statement_bind_text" -> Value("Blob", Len(c.val.s), c.val.s)
      [] OTHER -> c.val

\* The value a bind hands to stmt.bind_at: Value::Integer, Value::Float,
\* Value::from_text of the checked string, Value::from_blob of the copied bytes
\* (of an empty Vec where data_len is 0), Value::Null.
BindValue(c) ==
    CASE c.op = "turso_statement_bind_blob" ->
            IF c.val.i = 0 THEN Value("Blob", 0, "") ELSE Value("Blob", c.val.i, c.val.s)
      [] OTHER -> c.val

\* Faulty variant: the IO arm goes round the loop without calling run_once.
StepIOWithoutPump(t) ==
    /\ IOCount(outs[t]) < MaxIO
    /\ outs' = [outs EXCEPT ![t] = Append(outs[t], "IO")]
    /\ SetRow(t, NoRow)
    /\ UNCHANGED <<pc, lock, poisoned, call, pumps, last, ret, crossed>>

\* The arm for StepResult::IO: the body goes on to run_once. (The engine
\* yields IO at most MaxIO times in one call.)
StepIO(t) ==
    /\ IOCount(outs[t]) < MaxIO
    /\ pc' = [pc EXCEPT ![t] = "pump"]
    /\ outs' = [outs EXCEPT ![t] = Append(outs[t], "IO")]
    /\ SetRow(t, NoRow)
    /\ UNCHANGED <<lock, poisoned, call, pumps, last, ret, crossed>>

\* Faulty variant: the Busy arm steps again instead of returning.
StepBusyRetried(t) ==
    /\ Len(outs[t]) <= MaxIO
    /\ outs' = [outs EXCEPT ![t] = Append(outs[t], "Busy")]
    /\ SetRow(t, NoRow)
    /\ UNCHANGED <<pc, lock, poisoned, call, pumps, last, ret, crossed>>

\* The arm for StepResult::Busy: the body returns the error at once.
StepBusy(t) ==
    /\ Finish(t, Append(outs[t], "Busy"), pumps[t], EndTag("busy"))
    /\ SetRow(t, NoRow)

\* The autocommit states the engine may be in once the statement of call c
\* reached Done from state a: BEGIN opens a transaction, COMMIT ends it; what
\* ROLLBACK and a statement of the caller's leave is the engine's.
AutoCommitAfter(c, a) ==
    CASE c.op = "turso_connection_begin_transaction" -> {FALSE}
      [] c.op = "turso_connection_commit_transaction" -> {TRUE}
      [] c.op \in {"turso_connection_rollback_transaction",
                   "turso_connection_execute"} -> BOOLEAN
      [] OTHER -> {a}

\* One pass through the step loop: stmt.step() and the match on its outcome.
Step(t) ==
    /\ pc[t] = "step"
    /\ \/ \E v \in StepValues(t) :
            /\ Finish(t, Append(outs[t], "Row"), pumps[t], End("row", "", v, 0, NullPtr))
            /\ SetRow(t, v)
       \/ \E n \in (IF call[t].op = "turso_connection_execute" THEN Changes ELSE {0}) :
            /\ Finish(t, Append(outs[t], "Done"), pumps[t], End("done", "", NoRow, n, NullPtr))
            /\ SetRow(t, NoRow)
       \/ StepIO(t)
       \/ StepBusy(t)
       \/ /\ Finish(t, Append(outs[t], "Interrupt"), pumps[t], EndTag("interrupt"))
          /\ SetRow(t, NoRow)
       \/ \E text \in LimboErrors :
            /\ Finish(t, Append(outs[t], "Err"), pumps[t], EndErr("step_error", text))
            /\ SetRow(t, NoRow)
       \/ /\ Finish(t, Append(outs[t], "Panic"), pumps[t], EndTag("panic"))
          /\ SetRow(t, NoRow)
    /\ IF Len(outs'[t]) > Len(outs[t]) /\ outs'[t][Len(outs'[t])] = "Done"
          /\ call[t].h \in Connections
       THEN \E a \in AutoCommitAfter(call[t], auto_commit[call[t].h]) :
                auto_commit' = [auto_commit EXCEPT ![call[t].h] = a]
       ELSE UNCHANGED auto_commit
    /\ exhausted' =
            IF call[t].op \in StepOps /\ Len(outs'[t]) > Len(outs[t])
               /\ outs'[t][Len(outs'[t])] \in {"Row", "Done"}
            THEN [exhausted EXCEPT ![call[t].h] = outs'[t][Len(outs'[t])] = "Done"]
            ELSE exhausted
    /\ UNCHANGED <<scenario, kept, params, live, transaction_behavior>>

\* The IO arm: stmt.run_once(), then the loop steps again.
RunOnce(t) ==
    /\ pc[t] = "pump"
    /\ \/ /\ pc' = [pc EXCEPT ![t] = "step"]
          /\ pumps' = [pumps EXCEPT ![t] = pumps[t] + 1]
          /\ UNCHANGED <<lock, poisoned, call, outs, last, ret, crossed>>
       \/ \E text \in LimboErrors :
            Finish(t, outs[t], pumps[t] + 1, EndErr("io_error", text))
       \/ Finish(t, outs[t], pumps[t] + 1, EndTag("panic"))
    /\ UNCHANGED <<scenario, auto_commit, exhausted, kept, params, live, transaction_behavior, row>>

\* Faulty variant: the value reported is "in a transaction".
get_auto_commitNegated(h) == IF auto_commit[h] THEN 0 ELSE 1

\* conn.get_auto_commit(), as the bool written through result (1: true).
get_auto_commit(h) == IF auto_commit[h] THEN 1 ELSE 0

\* Faulty variant: reset clears the bindings as well.
ResetBindingsCleared(h) == Unbound

\* stmt.reset(): the value bound to the statement's parameter stays bound.
ResetBindings(h) == params[h]

\* Faulty variant: the columns of the current row are counted.
num_columnsOfRow(h) == IF row[h] = NoRow THEN 0 ELSE scenario.columns

\* stmt.num_columns(): the number of result columns of the statement.
num_columns(h) == scenario.columns

\* The body of an operation that makes one engine call under the lock.
EngineCall(t) ==
    /\ pc[t] = "engine"
    /\ \/ /\ call[t].op \in ColumnCountOps
          /\ Finish(t, outs[t], pumps[t],
                    End("ok", "", NoRow, num_columns(call[t].h), NullPtr))
          /\ UNCHANGED <<row, params>>
       \/ /\ call[t].op \in ColumnNameOps
          /\ InRange(call[t].arg)
          /\ \E name \in ColumnNames :
                Finish(t, outs[t], pumps[t], End("ok", name, NoRow, 0, NullPtr))
          /\ UNCHANGED <<row, params>>
       \/ /\ call[t].op \in ColumnValueOps
          /\ row[call[t].h] = NoRow \/ InRange(call[t].arg)
          /\ Finish(t, outs[t], pumps[t], End("ok", "", row[call[t].h], 0, NullPtr))
          /\ UNCHANGED <<row, params>>
       \/ /\ call[t].op \in BindOps
          /\ Finish(t, outs[t], pumps[t], EndTag("ok"))
          /\ params' = [params EXCEPT ![call[t].h] = BindValue(call[t])]
          /\ UNCHANGED row
       \/ /\ call[t].op = "turso_statement_reset"
          /\ Finish(t, outs[t], pumps[t], EndTag("ok"))
          /\ row' = [row EXCEPT ![call[t].h] = NoRow]
          /\ params' = [params EXCEPT ![call[t].h] = ResetBindings(call[t].h)]
       \/ /\ call[t].op = "turso_connection_is_autocommit"
          /\ Finish(t, outs[t], pumps[t],
                    End("ok", "", NoRow, get_auto_commit(call[t].h), NullPtr))
          /\ UNCHANGED <<row, params>>
       \/ /\ Finish(t, outs[t], pumps[t], EndTag("panic"))
          /\ UNCHANGED <<row, params>>
    /\ exhausted' =
            IF call[t].op = "turso_statement_reset" /\ last'[t].tag = "ok"
            THEN [exhausted EXCEPT ![call[t].h] = FALSE]
            ELSE exhausted
    /\ UNCHANGED <<scenario, auto_commit, kept, live, transaction_behavior>>

(***************************************************************************)
(* The exported functions: the argument checks and the way into the body.  *)
(***************************************************************************)
ColumnIndexes == {-1, 0, 1}
ParamIndexes == {-1, 0, 1}

\* No other thread is inside a call on h (closing a handle in use is the
\* caller's error and undefined).
Unused(t, h) == \A u \in Threads \ {t} : pc[u] \in {"idle", "done"} \/ call[u].h # h

KeepShared ==
    UNCHANGED <<live, lock, poisoned, transaction_behavior, row, kept, params,
                auto_commit, exhausted>>

\* Box::from_raw and the drop of the wrapper: the handle is gone.
Drop(h) ==
    /\ live' = live \ {h}
    /\ poisoned' = [x \in Lockable |-> IF x = h THEN FALSE ELSE poisoned[x]]
    /\ row' = [x \in Prepared |-> IF x = h THEN NoRow ELSE row[x]]
    /\ transaction_behavior' =
            [x \in Connections |-> IF x = h THEN "Deferred" ELSE transaction_behavior[x]]
    /\ params' = [x \in Statements |-> IF x = h THEN Unbound ELSE params[x]]
    /\ auto_commit' = [x \in Connections |-> IF x = h THEN TRUE ELSE auto_commit[x]]
    /\ exhausted' = [x \in Prepared |-> IF x = h THEN FALSE ELSE exhausted[x]]
    /\ UNCHANGED <<lock, kept>>

\* A close or finalize: the null check, then the drop inside the barrier.
Close(t, op, kind) ==
    \E h \in Args(kind) :
        IF h = NullHandle
        THEN Early(t, Call(op, h, 0))
        ELSE /\ Unused(t, h)
             /\ \E tag \in {"ok", "panic"} : Ends(t, Call(op, h, 0), EndTag(tag))
             /\ Drop(h)

\* An open: the engine creates the object, the wrapper is boxed and handed out.
\* from is the handle the object is made from (the null pointer where none is).
Open(t, op, from, kind) ==
    \/ /\ \E h \in kind \ live :
            /\ Ends(t, Call(op, from, 0), End("ok", "", NoRow, 0, h))
            /\ live' = live \cup {h}
       /\ UNCHANGED <<lock, poisoned, transaction_behavior, row, kept, params,
                      auto_commit, exhausted>>
    \/ /\ \E text \in LimboErrors :
            Ends(t, Call(op, from, 0), EndErr("engine_error", text))
       /\ KeepShared
    \/ /\ Ends(t, Call(op, from, 0), EndTag("panic"))
       /\ KeepShared

turso_database_open_memory(t) ==
    Open(t, "turso_database_open_memory", NullHandle, Databases)

turso_database_open_file(t) ==
    \E path \in StringArgs :
        CASE path = "null" -> Early(t, Call("turso_database_open_file", NullHandle, 0))
          [] path = "invalid_utf8" ->
                /\ Ends(t, Call("turso_database_open_file", NullHandle, 0),
                        EndTag("invalid_utf8"))
                /\ KeepShared
          [] OTHER -> Open(t, "turso_database_open_file", NullHandle, Databases)

turso_database_close(t) == Close(t, "turso_database_close", Databases)

turso_connection_open(t) ==
    \E db \in Args(Databases) :
        IF db = NullHandle
        THEN Early(t, Call("turso_connection_open", db, 0))
        ELSE Open(t, "turso_connection_open", db, Connections)

turso_connection_close(t) == Close(t, "turso_connection_close", Connections)

\* An operation on a connection that takes SQL text: the null checks, the
\* UTF-8 check inside the barrier, then the lock.
WithSql(t, op, args) ==
    \E h \in Args(Connections), sql \in StringArgs, arg \in args :
        CASE h = NullHandle \/ sql = "null" -> Early(t, Call(op, h, arg))
          [] sql = "invalid_utf8" ->
                Ends(t, Call(op, h, arg), EndTag("invalid_utf8")) /\ KeepShared
          [] OTHER -> Enter(t, Call(op, h, arg)) /\ UNCHANGED transaction_behavior

\* arg = 1: the rows_changed pointer is not null
turso_connection_execute(t) == WithSql(t, "turso_connection_execute", {0, 1})

turso_connection_query(t) == WithSql(t, "turso_connection_query", {0})

\* arg = 1: the result pointer is not null
turso_connection_query_scalar_int(t) ==
    \E h \in Args(Connections), sql \in StringArgs, arg \in {0, 1} :
        LET c == Call("turso_connection_query_scalar_int", h, arg) IN
        CASE h = NullHandle \/ sql = "null" \/ arg = 0 -> Early(t, c)
          [] sql = "invalid_utf8" -> Ends(t, c, EndTag("invalid_utf8")) /\ KeepShared
          [] OTHER -> Enter(t, c) /\ UNCHANGED transaction_behavior

turso_connection_query_scalar_string(t) ==
    WithSql(t, "turso_connection_query_scalar_string", {0})

turso_connection_prepare(t) == WithSql(t, "turso_connection_prepare", {0})

\* An operation that only checks the handle before it locks.
OnHandle(t, op, kind) ==
    \E h \in Args(kind) :
        IF h = NullHandle
        THEN Early(t, Call(op, h, 0))
        ELSE Enter(t, Call(op, h, 0)) /\ UNCHANGED transaction_behavior

turso_rows_next(t) == OnHandle(t, "turso_rows_next", RowsHandles)

turso_rows_close(t) == Close(t, "turso_rows_close", RowsHandles)

turso_statement_step(t) == OnHandle(t, "turso_statement_step", Statements)

turso_rows_column_count(t) == OnHandle(t, "turso_rows_column_count", RowsHandles)

turso_statement_column_count(t) == OnHandle(t, "turso_statement_column_count", Statements)

\* Faulty variant: a negative index is not rejected before the body.
OnColumnUnchecked(t, op, kind) ==
    \E h \in Args(kind), column_index \in ColumnIndexes :
        IF h = NullHandle
        THEN Early(t, Call(op, h, column_index))
        ELSE Enter(t, Call(op, h, column_index)) /\ UNCHANGED transaction_behavior

\* A column accessor: the handle and a column index that must not be negative.
OnColumn(t, op, kind) ==
    \E h \in Args(kind), column_index \in ColumnIndexes :
        IF h = NullHandle \/ column_index < 0
        THEN Early(t, Call(op, h, column_index))
        ELSE Enter(t, Call(op, h, column_index)) /\ UNCHANGED transaction_behavior

turso_rows_column_name(t) == OnColumn(t, "turso_rows_column_name", RowsHandles)

turso_statement_column_name(t) == OnColumn(t, "turso_statement_column_name", Statements)

turso_rows_column_type(t) == OnColumn(t, "turso_rows_column_type", RowsHandles)

turso_statement_column_type(t) == OnColumn(t, "turso_statement_column_type", Statements)

turso_rows_column_int64(t) == OnColumn(t, "turso_rows_column_int64", RowsHandles)

turso_statement_column_int64(t) == OnColumn(t, "turso_statement_column_int64", Statements)

turso_rows_column_double(t) == OnColumn(t, "turso_rows_column_double", RowsHandles)

turso_statement_column_double(t) == OnColumn(t, "turso_statement_column_double", Statements)

turso_rows_column_text(t) == OnColumn(t, "turso_rows_column_text", RowsHandles)

turso_statement_column_text(t) == OnColumn(t, "turso_statement_column_text", Statements)

turso_rows_column_is_null(t) == OnColumn(t, "turso_rows_column_is_null", RowsHandles)

turso_statement_column_is_null(t) ==
    OnColumn(t, "turso_statement_column_is_null", Statements)

\* The blob accessors also reject a null data_len pointer (len_ptr = "null").
OnBlobColumn(t, op, kind) ==
    \E h \in Args(kind), column_index \in ColumnIndexes, len_ptr \in {"null", "valid"} :
        IF h = NullHandle \/ column_index < 0 \/ len_ptr = "null"
        THEN Early(t, Call(op, h, column_index))
        ELSE Enter(t, Call(op, h, column_index)) /\ UNCHANGED transaction_behavior

turso_rows_column_blob(t) == OnBlobColumn(t, "turso_rows_column_blob", RowsHandles)

turso_statement_column_blob(t) == OnBlobColumn(t, "turso_statement_column_blob", Statements)

turso_statement_finalize(t) == Close(t, "turso_statement_finalize", Statements)

\* Faulty variant: only a negative parameter index is rejected.
OnParamFromZero(t, op, v) ==
    \E h \in Args(Statements), param_index \in ParamIndexes :
        IF h = NullHandle \/ param_index < 0
        THEN Early(t, Bind(op, h, param_index, v))
        ELSE Enter(t, Bind(op, h, param_index, v)) /\ UNCHANGED transaction_behavior

\* A bind: the handle and a parameter index that must be at least 1.
OnParam(t, op, v) ==
    \E h \in Args(Statements), param_index \in ParamIndexes :
        IF h = NullHandle \/ param_index < 1
        THEN Early(t, Bind(op, h, param_index, v))
        ELSE Enter(t, Bind(op, h, param_index, v)) /\ UNCHANGED transaction_behavior

turso_statement_bind_int64(t) ==
    OnParam(t, "turso_statement_bind_int64", Value("Integer", 42, ""))

turso_statement_bind_double(t) ==
    OnParam(t, "turso_statement_bind_double", Value("Float", 15, ""))

\* The texts a caller binds: valid UTF-8, the empty string among them.
Texts == {"hello", ""}

turso_statement_bind_text(t) ==
    \E h \in Args(Statements), param_index \in ParamIndexes,
       value \in {"null", "invalid_utf8"} \cup Texts :
        LET c == Bind("turso_statement_bind_text", h, param_index,
                      Value("Text", 0, value)) IN
        CASE h = NullHandle \/ param_index < 1 \/ value = "null" -> Early(t, c)
          [] value = "invalid_utf8" -> Ends(t, c, EndTag("invalid_utf8")) /\ KeepShared
          [] OTHER -> Enter(t, c) /\ UNCHANGED transaction_behavior

turso_statement_reset(t) == OnHandle(t, "turso_statement_reset", Statements)

\* Faulty variant: a null data pointer is rejected whatever the length.
turso_statement_bind_blobNoNull(t) ==
    \E h \in Args(Statements), param_index \in ParamIndexes,
       data \in {"null", "ab"}, data_len \in {-1, 0, 2} :
        LET c == Bind("turso_statement_bind_blob", h, param_index,
                      Value("Blob", data_len, data)) IN
        IF h = NullHandle \/ param_index < 1 \/ data_len < 0 \/ data = "null"
        THEN Early(t, c)
        ELSE Enter(t, c) /\ UNCHANGED transaction_behavior

\* data = "null": the null pointer; "ab": a buffer of two bytes
turso_statement_bind_blob(t) ==
    \E h \in Args(Statements), param_index \in ParamIndexes,
       data \in {"null", "ab"}, data_len \in {-1, 0, 2} :
        LET c == Bind("turso_statement_bind_blob", h, param_index,
                      Value("Blob", data_len, data)) IN
        IF h = NullHandle \/ param_index < 1 \/ data_len < 0
           \/ (data = "null" /\ data_len > 0)
        THEN Early(t, c)
        ELSE Enter(t, c) /\ UNCHANGED transaction_behavior

turso_statement_bind_null(t) ==
    OnParam(t, "turso_statement_bind_null", Value("Null", 0, ""))

\* Faulty variant: the wrapper's mode is never written.
turso_connection_begin_transactionUntracked(t) ==
    \E h \in Args(Connections), behavior \in scenario.behaviors[t] :
        LET c == Call("turso_connection_begin_transaction", h, behavior) IN
        CASE h = NullHandle -> Early(t, c)
          [] behavior \notin {0, 1, 2} ->
                Ends(t, c, EndTag("invalid_behavior")) /\ KeepShared
          [] OTHER -> Enter(t, c) /\ UNCHANGED transaction_behavior

\* The mode is stored in the wrapper before the connection is locked.
turso_connection_begin_transaction(t) ==
    \E h \in Args(Connections), behavior \in scenario.behaviors[t] :
        LET c == Call("turso_connection_begin_transaction", h, behavior) IN
        CASE h = NullHandle -> Early(t, c)
          [] behavior \notin {0, 1, 2} ->
                Ends(t, c, EndTag("invalid_behavior")) /\ KeepShared
          [] OTHER ->
                /\ Enter(t, c)
                /\ transaction_behavior' =
                        [transaction_behavior EXCEPT ![h] = Behavior(behavior)]

turso_connection_commit_transaction(t) ==
    OnHandle(t, "turso_connection_commit_transaction", Connections)

turso_connection_rollback_transaction(t) ==
    OnHandle(t, "turso_connection_rollback_transaction", Connections)

\* The result pointer must not be null either (arg = 0: it is null).
turso_connection_is_autocommit(t) ==
    \E h \in Args(Connections), arg \in {0, 1} :
        IF h = NullHandle \/ arg = 0
        THEN Early(t, Call("turso_connection_is_autocommit", h, arg))
        ELSE Enter(t, Call("turso_connection_is_autocommit", h, arg))
             /\ UNCHANGED transaction_behavior

\* The release of memory the caller was given: by CString::from_raw and its
\* drop, or by Layout::array(..).unwrap() and dealloc.  There is no
\* catch_unwind around it.  released = 1: memory was released.
Release(t, c, keep) ==
    \/ /\ Ends(t, c, End("ok", "", NoRow, 1, NullPtr))
       /\ kept' = keep
    \/ /\ Ends(t, c, EndTag("panic"))
       /\ UNCHANGED kept

\* The body does nothing: a null pointer, or nothing to release.
Nothing(t, c) ==
    /\ Ends(t, c, End("ok", "", NoRow, 0, NullPtr))
    /\ UNCHANGED kept

turso_free_string(t) ==
    /\ \E ptr \in {"null", "valid"} :
        LET c == Call("turso_free_string", NullHandle, 0) IN
        IF ptr = "null" THEN Nothing(t, c) ELSE Release(t, c, kept)
    /\ UNCHANGED <<live, lock, poisoned, transaction_behavior, row, params,
                   auto_commit, exhausted>>

turso_free_blob(t) ==
    /\ \E ptr \in {"null", "valid"}, data_len \in {-1, 0, 1} :
        LET c == Call("turso_free_blob", NullHandle, data_len) IN
        IF ptr # "null" /\ data_len > 0 THEN Release(t, c, kept) ELSE Nothing(t, c)
    /\ UNCHANGED <<live, lock, poisoned, transaction_behavior, row, params,
                   auto_commit, exhausted>>

\* Faulty variant: the message is released and the pointer to it left in place.
turso_free_error_messageDangling(t) ==
    /\ \E result \in {0, 1} :
        LET c == Call("turso_free_error_message", NullHandle, result) IN
        IF result = 1 /\ kept.error_message # NullMsg
        THEN Release(t, c, kept)
        ELSE Nothing(t, c)
    /\ UNCHANGED <<live, lock, poisoned, transaction_behavior, row, params,
                   auto_commit, exhausted>>

\* arg = 1: the result pointer is not null and points to the envelope kept
turso_free_error_message(t) ==
    /\ \E result \in {0, 1} :
        LET c == Call("turso_free_error_message", NullHandle, result) IN
        IF result = 1 /\ kept.error_message # NullMsg
        THEN Release(t, c, [kept EXCEPT !.error_message = NullMsg])
        ELSE Nothing(t, c)
    /\ UNCHANGED <<live, lock, poisoned, transaction_behavior, row, params,
                   auto_commit, exhausted>>

(***************************************************************************)
(* The next-state relation.                                                *)
(***************************************************************************)
Next ==
    \E t \in Threads :
        \/ turso_database_open_memory(t)
        \/ turso_database_open_file(t)
        \/ turso_database_close(t)
        \/ turso_connection_open(t)
        \/ turso_connection_close(t)
        \/ turso_connection_execute(t)
        \/ turso_connection_query(t)
        \/ turso_connection_query_scalar_int(t)
        \/ turso_connection_query_scalar_string(t)
        \/ turso_connection_prepare(t)
        \/ turso_rows_next(t)
        \/ turso_rows_close(t)
        \/ turso_statement_step(t)
        \/ turso_rows_column_count(t)
        \/ turso_statement_column_count(t)
        \/ turso_rows_column_name(t)
        \/ turso_statement_column_name(t)
        \/ turso_rows_column_type(t)
        \/ turso_statement_column_type(t)
        \/ turso_rows_column_int64(t)
        \/ turso_statement_column_int64(t)
        \/ turso_rows_column_double(t)
        \/ turso_statement_column_double(t)
        \/ turso_rows_column_text(t)
        \/ turso_statement_column_text(t)
        \/ turso_rows_column_is_null(t)
        \/ turso_statement_column_is_null(t)
        \/ turso_statement_finalize(t)
        \/ turso_statement_bind_int64(t)
        \/ turso_statement_bind_double(t)
        \/ turso_statement_bind_text(t)
        \/ turso_statement_reset(t)
        \/ turso_statement_bind_blob(t)
        \/ turso_rows_column_blob(t)
        \/ turso_statement_column_blob(t)
        \/ turso_statement_bind_null(t)
        \/ turso_connection_begin_transaction(t)
        \/ turso_connection_commit_transaction(t)
        \/ turso_connection_rollback_transaction(t)
        \/ turso_connection_is_autocommit(t)
        \/ turso_free_string(t)
        \/ turso_free_blob(t)
        \/ turso_free_error_message(t)
        \/ Acquire(t)
        \/ Prepare(t)
        \/ Step(t)
        \/ RunOnce(t)
        \/ EngineCall(t)
        \/ Return(t)

\* Calls from one thread.
Spec == Init /\ [][Next]_vars
\* Calls from several threads at once.
ConcSpec == ConcInit /\ [][Next]_vars

\* A thread inside a call goes on: the scheduler runs it and every engine call
\* returns.  (A thread waiting for a Mutex goes on only while the Mutex is free,
\* and the engine answers IO at most MaxIO times in a row.)
Progress(t) == Acquire(t) \/ Prepare(t) \/ Step(t) \/ RunOnce(t) \/ EngineCall(t)
Fairness == \A t \in Threads : WF_vars(Progress(t))
FairSpec == Spec /\ Fairness
ConcFairSpec == ConcSpec /\ Fairness

(***************************************************************************)
(* What the checks below speak of.                                         *)
(***************************************************************************)
Returned(t) == pc[t] = "done"
\* The thread is between taking and releasing a lock: at an engine call.
InEngine(t) == pc[t] \in {"prepare", "step", "pump", "engine"}
FinalOutcome(t) == IF outs[t] = <<>> THEN "none" ELSE outs[t][Len(outs[t])]
\* The operations that take a handle.
HandleOps == Ops \ {"turso_database_open_memory", "turso_database_open_file"}

FailedEnvelope(r) ==
    r.kind = "envelope" /\ ~r.success /\ r.error_message # NullMsg
IsNullPointer(r) == r.kind = "pointer" /\ r.ptr = NullPtr
IsNegative(r) == r.kind = "i32" /\ r.int < 0

\* The failure representation of an operation that has one.
FailureRepresentation(op, r) ==
    CASE op \in EnvelopeOps -> FailedEnvelope(r)
      [] op \in PointerOps -> IsNullPointer(r)
      [] op \in I32Ops -> IsNegative(r)
      [] OTHER -> TRUE

\* C1: a panic raised inside the body of an operation is caught at the
\* boundary: it never unwinds into the caller, and the operation returns its
\* failure representation (a failed envelope with a message, a null pointer,
\* a negative value).
C1_FaultBarrier ==
    \A t \in Threads :
        /\ call[t].op \in Ops => ~crossed[t]
        /\ (Returned(t) /\ last[t].tag = "panic") =>
                FailureRepresentation(call[t].op, ret[t])

C1_Witness ==
    \E t \in Threads :
        /\ Returned(t) /\ last[t].tag = "panic"
        /\ call[t].op = "turso_connection_execute"
        /\ outs[t] = <<"IO", "Panic">>
        /\ FailedEnvelope(ret[t])

\* C2: the calls on one handle are serialized by its lock: at most one thread
\* at a time is between taking and releasing the lock of a handle, and a
\* thread is at an engine call on a wrapped object only while it holds that
\* handle's lock.
C2_Serialized ==
    /\ \A t \in Threads : InEngine(t) => lock[call[t].h] = t
    /\ \A h \in Lockable :
            Cardinality({t \in Threads : InEngine(t) /\ call[t].h = h}) <= 1
    /\ \A h \in Lockable :
            lock[h] # NoThread => InEngine(lock[h]) /\ call[lock[h]].h = h

C2_Witness ==
    \E t, u \in Threads :
        /\ t # u
        /\ pc[t] = "pump" /\ lock[call[t].h] = t
        /\ pc[u] = "lock" /\ call[u].h = call[t].h

\* C3: every operation releases the handle's lock on every exit path: a
\* thread that has returned (by success, by a logical error or by a caught
\* panic), or that has not locked yet, holds no lock; and a lock that is held
\* is released in the end, so that no waiting call waits for ever.
C3_NoLockAfterReturn ==
    \A t \in Threads :
        pc[t] \in {"idle", "lock", "done"} => \A h \in Lockable : lock[h] # t

C3_LockReleased ==
    /\ []C3_NoLockAfterReturn
    /\ \A h \in Lockable : \A t \in Threads : (lock[h] = t) ~> (lock[h] # t)

C3_Witness ==
    \E t, u \in Threads :
        /\ t # u
        /\ Returned(t) /\ last[t].tag = "panic" /\ outs[t] = <<"IO", "Panic">>
        /\ pc[u] = "lock" /\ call[u].h = call[t].h
        /\ lock[call[t].h] = NoThread

\* The typed accessors have no failure value of their own: they return the
\* default of their type (0, 0.0, "is null").
ValueOps == ColumnInt64Ops \cup ColumnDoubleOps \cup ColumnIsNullOps
DefaultValue(op, r) ==
    CASE op \in ColumnInt64Ops -> r.kind = "i64" /\ r.int = 0
      [] op \in ColumnDoubleOps -> r.kind = "f64" /\ r.int = 0
      [] op \in ColumnIsNullOps -> r.kind = "bool" /\ r.int = 1
      [] OTHER -> FALSE

\* C4: a poisoned lock is an ordinary error. A call that finds the lock of
\* its handle poisoned ends at once with the operation's failure value, with
\* no panic, no engine call and no lock held; a poisoned lock is never held,
\* so no call waits on it; a lock is poisoned only by a panic of the call that
\* held it and stays poisoned as long as its handle lives, and a call on a
\* handle whose lock is not poisoned takes the lock and runs its body as usual.
C4_LockErrorReturned ==
    /\ \A t \in Threads :
           (Returned(t) /\ last[t].tag = "lock_error") =>
               /\ ~crossed[t]
               /\ outs[t] = <<>> /\ pumps[t] = 0
               /\ FailureRepresentation(call[t].op, ret[t])
               /\ call[t].op \in ValueOps => DefaultValue(call[t].op, ret[t])
    /\ \A h \in Lockable : poisoned[h] => lock[h] = NoThread

C4_AcquireStep ==
    \A t \in Threads :
        /\ (pc[t] = "lock" /\ pc'[t] # "lock") =>
               IF poisoned[call[t].h]
               THEN pc'[t] = "done" /\ last'[t].tag = "lock_error" /\ lock' = lock
               ELSE pc'[t] = FirstPhase(call[t].op) /\ lock'[call[t].h] = t
        /\ (last[t].tag # "lock_error" /\ last'[t].tag = "lock_error") =>
               pc[t] = "lock" /\ poisoned[call[t].h]

C4_PoisonStep ==
    \A h \in Lockable :
        /\ (poisoned[h] /\ h \in live') => poisoned'[h]
        /\ (~poisoned[h] /\ poisoned'[h]) =>
               /\ lock[h] \in Threads
               /\ call[lock[h]].h = h
               /\ last'[lock[h]].tag = "panic"

C4_PoisonedLock ==
    /\ []C4_LockErrorReturned
    /\ [][C4_AcquireStep /\ C4_PoisonStep]_vars

C4_Witness ==
    /\ poisoned["conn"] /\ ~poisoned["stmt"]
    /\ \E t, u \in Threads :
        /\ Returned(t) /\ call[t].op = "turso_connection_execute"
        /\ last[t].tag = "lock_error" /\ FailedEnvelope(ret[t])
        /\ ret[t].error_message = MutexError(PoisonText)
        /\ Returned(u) /\ call[u].op = "turso_statement_column_type"
        /\ call[u].h = "stmt" /\ last[u].tag = "ok"

\* C5 (as the claim states it): a null handle makes every operation return a
\* null pointer, a negative integer or a failed envelope with a message.
NullHandleCall(t) ==
    Returned(t) /\ call[t].op \in HandleOps /\ call[t].h = NullHandle

C5_NullHandleIndicator ==
    \A t \in Threads :
        NullHandleCall(t) =>
            \/ FailedEnvelope(ret[t])
            \/ IsNullPointer(ret[t])
            \/ IsNegative(ret[t])

\* C5 (amended): a null handle makes every operation return before its body,
\* with no lock taken, no engine call and nothing freed: a failed envelope with
\* a message, a null pointer or a negative integer by return type, and for the
\* typed accessors column_int64, column_double and column_is_null the default
\* 0, 0.0 and true.
C5_NullHandleState ==
    \A t \in Threads :
        NullHandleCall(t) =>
            /\ last[t].tag = "invalid_arg"
            /\ outs[t] = <<>> /\ pumps[t] = 0
            /\ \A h \in Lockable : lock[h] # t
            /\ FailureRepresentation(call[t].op, ret[t])
            /\ call[t].op \in ValueOps => DefaultValue(call[t].op, ret[t])
            /\ call[t].op \notin ValueOps =>
                   \/ FailedEnvelope(ret[t])
                   \/ IsNullPointer(ret[t])
                   \/ IsNegative(ret[t])

C5_NullHandleStep ==
    \A t \in Threads :
        (pc[t] = "idle" /\ pc'[t] # "idle" /\ call'[t].op \in HandleOps
            /\ call'[t].h = NullHandle) =>
                /\ pc'[t] = "done"
                /\ UNCHANGED <<live, lock, poisoned, transaction_behavior, row>>

C5_NullHandle ==
    /\ []C5_NullHandleState
    /\ [][C5_NullHandleStep]_vars

C5_Witness ==
    \E t \in Threads :
        /\ NullHandleCall(t)
        /\ call[t].op = "turso_rows_column_int64"
        /\ ret[t] = I64(0)
        /\ live = {"db", "conn", "rows"}

\* C6: in every envelope an operation returns, success is true exactly when
\* error_message is null, and a failed envelope carries a string that
\* CString could encode (the fallback text where the error's text could not).
C6_Envelope ==
    \A t \in Threads :
        (Returned(t) /\ call[t].op \in EnvelopeOps) =>
            /\ ret[t].kind = "envelope"
            /\ ret[t].success <=> ret[t].error_message = NullMsg
            /\ ~ret[t].success =>
                   /\ Len(ret[t].error_message) = 2
                   /\ ~HasNul(ret[t].error_message[2])

C6_Witness ==
    \E t \in Threads :
        /\ Returned(t) /\ call[t].op \in EnvelopeOps
        /\ HasNul(last[t].text)
        /\ ~ret[t].success
        /\ ret[t].error_message = Literal("Invalid error message")

\* C7: turso_rows_next and turso_statement_step return 1 exactly when the
\* last step of the call yielded Row, 0 exactly when it yielded Done, and a
\* negative value in every other case (Busy, Interrupt, a step error, a pump
\* error, a poisoned lock, a caught panic, a null handle).
C7_StepEncoding ==
    \A t \in Threads :
        (Returned(t) /\ call[t].op \in StepOps) =>
            /\ ret[t].kind = "i32"
            /\ ret[t].int = 1 <=> FinalOutcome(t) = "Row"
            /\ ret[t].int = 0 <=> FinalOutcome(t) = "Done"
            /\ FinalOutcome(t) \notin {"Row", "Done"} => ret[t].int < 0
            /\ last[t].tag \in {"busy", "interrupt", "step_error", "io_error",
                                "lock_error", "panic", "invalid_arg"} => ret[t].int < 0

C7_Witness ==
    \E t \in Threads :
        /\ Returned(t) /\ call[t].op = "turso_rows_next"
        /\ outs[t] = <<"IO", "IO", "Row">>
        /\ ret[t].int = 1

\* C8: an IO outcome of step is never what the caller gets. Inside the
\* operations with a step loop every IO is followed by one run_once and then
\* by the next step, until step yields Row, Done, Busy, Interrupt or an error,
\* or run_once fails; and as the engine stops yielding IO, every such call
\* returns with a terminal outcome.
TerminalTags ==
    {"row", "done", "busy", "interrupt", "step_error", "io_error", "panic"}

C8_PumpState ==
    \A t \in Threads :
        call[t].op \in LoopOps =>
            /\ \A i \in 1..(Len(outs[t]) - 1) : outs[t][i] = "IO"
            /\ pc[t] = "step" =>
                   pumps[t] = Len(outs[t]) /\ IOCount(outs[t]) = Len(outs[t])
            /\ pc[t] = "pump" =>
                   /\ Len(outs[t]) = pumps[t] + 1
                   /\ IOCount(outs[t]) = Len(outs[t])
            /\ (pc[t] = "done" /\ outs[t] # <<>>) =>
                   /\ last[t].tag \in TerminalTags
                   /\ IF FinalOutcome(t) = "IO"
                      THEN pumps[t] = Len(outs[t])
                           /\ last[t].tag \in {"io_error", "panic"}
                      ELSE pumps[t] = Len(outs[t]) - 1

C8_PumpStep ==
    \A t \in Threads :
        /\ (pc[t] = "step" /\ pc'[t] = "pump") =>
               outs'[t] = Append(outs[t], "IO") /\ pumps'[t] = pumps[t]
        /\ pc[t] = "pump" =>
               \/ pc'[t] = "pump" /\ pumps'[t] = pumps[t]
               \/ pc'[t] \in {"step", "done"} /\ pumps'[t] = pumps[t] + 1
                    /\ outs'[t] = outs[t]

C8_IONeverObserved ==
    /\ []C8_PumpState
    /\ [][C8_PumpStep]_vars
    /\ \A t \in Threads : InEngine(t) ~> Returned(t)

C8_Witness ==
    \E t \in Threads :
        /\ Returned(t) /\ call[t].op = "turso_connection_commit_transaction"
        /\ outs[t] = <<"IO", "IO", "Done">> /\ pumps[t] = 2
        /\ ret[t].success

\* C9: nothing is retried. A Busy, an Interrupt or an error of step is the
\* last engine call of the operation: the call is over with its failure value,
\* with no step and no run_once after it; a call steps more than once only
\* after IO outcomes.
C9_NoRetryState ==
    \A t \in Threads :
        \A i \in 1..Len(outs[t]) :
            /\ outs[t][i] \in {"Busy", "Interrupt", "Err"} =>
                   /\ i = Len(outs[t])
                   /\ pumps[t] = i - 1
                   /\ Returned(t)
                   /\ last[t].tag \in {"busy", "interrupt", "step_error"}
                   /\ FailureRepresentation(call[t].op, ret[t])
                   /\ call[t].op \in ValueOps => DefaultValue(call[t].op, ret[t])
            /\ i < Len(outs[t]) => outs[t][i] = "IO"

C9_NoRetryStep ==
    \A t \in Threads :
        FinalOutcome(t) \in {"Busy", "Interrupt", "Err"} =>
            /\ outs'[t] \in {outs[t], <<>>}
            /\ pumps'[t] \in {pumps[t], 0}
            /\ pc'[t] \in {"done", "idle"}

C9_NoRetry ==
    /\ []C9_NoRetryState
    /\ [][C9_NoRetryStep]_vars

C9_Witness ==
    \E t \in Threads :
        /\ Returned(t) /\ call[t].op = "turso_connection_query_scalar_string"
        /\ outs[t] = <<"IO", "Busy">> /\ pumps[t] = 1
        /\ IsNullPointer(ret[t])

\* C10: when a step of turso_connection_execute yields Row, the call stops at
\* that Row (it is the last engine call) and returns a failed envelope whose
\* message says "unexpected row"; it does not report success.
C10_UnexpectedRow ==
    \A t \in Threads :
        (call[t].op = "turso_connection_execute" /\ FinalOutcome(t) = "Row") =>
            /\ Returned(t)
            /\ \A i \in 1..(Len(outs[t]) - 1) : outs[t][i] = "IO"
            /\ pumps[t] = Len(outs[t]) - 1
            /\ FailedEnvelope(ret[t])
            /\ ret[t].error_message =
                   SqlExecutionFailure("unexpected row during execution")

C10_Witness ==
    \E t \in Threads :
        /\ Returned(t) /\ call[t].op = "turso_connection_execute"
        /\ outs[t] = <<"IO", "Row">>
        /\ ~ret[t].success

\* C11: when turso_connection_execute drives its statement to Done, the
\* envelope is a success and the value written to rows_changed (where the
\* pointer is not null) is the change count the engine reported for the
\* statement; nothing is written through a null pointer.
ExecuteDone(t) ==
    /\ Returned(t) /\ call[t].op = "turso_connection_execute"
    /\ FinalOutcome(t) = "Done"

C11_RowsChanged ==
    \A t \in Threads :
        ExecuteDone(t) =>
            /\ last[t].tag = "done"
            /\ ret[t].kind = "envelope" /\ ret[t].success
            /\ ret[t].error_message = NullMsg
            /\ call[t].arg = 1 => ret[t].out = <<last[t].n>>
            /\ call[t].arg = 0 => ret[t].out = <<>>

C11_Witness ==
    \E t \in Threads :
        /\ ExecuteDone(t) /\ call[t].arg = 1
        /\ outs[t] = <<"IO", "Done">>
        /\ last[t].n = 1 /\ ret[t].out = <<1>>

\* C12 (as the claim states it): the functions that free memory run their
\* bodies inside the barrier like the closes do, so that a panic raised while
\* memory is released never unwinds into the caller.
C12_FreeBarrier ==
    \A t \in Threads :
        (call[t].op \in FreeOps \cup CloseOps /\ last[t].tag = "panic") =>
            Returned(t) /\ ~crossed[t]

\* C13 (as the claim states it): the negative value turso_rows_next and
\* turso_statement_step return for a null handle (the value of the early
\* return) is never the value they return for an error on a handle that is
\* not null.
C13_NullHandleDistinct ==
    \A t \in Threads :
        (Returned(t) /\ call[t].op \in StepOps /\ call[t].h # NullHandle
            /\ ret[t].int < 0) =>
                ret[t] # EarlyReturn(call[t].op)

\* C14: a bind with a parameter index of 0 or less returns a failed envelope
\* at once: the statement's lock is not taken, the engine's bind is not
\* called, and the values bound before stay as they are.
C14_BadIndexState ==
    \A t \in Threads :
        (call[t].op \in BindOps /\ call[t].arg < 1) =>
            /\ Returned(t)
            /\ last[t].tag = "invalid_arg"
            /\ FailedEnvelope(ret[t])
            /\ \A h \in Lockable : lock[h] # t

C14_BadIndexStep ==
    \A t \in Threads :
        (call'[t] # call[t] /\ call'[t].op \in BindOps /\ call'[t].arg < 1) =>
            params' = params /\ lock' = lock /\ row' = row

C14_BadIndex ==
    /\ []C14_BadIndexState
    /\ [][C14_BadIndexStep]_vars

C14_Witness ==
    \E t \in Threads :
        /\ Returned(t) /\ call[t].op = "turso_statement_bind_text"
        /\ call[t].h = "stmt" /\ call[t].arg = 0
        /\ params["stmt"] = Value("Integer", 42, "")
        /\ ~ret[t].success

\* C15: turso_statement_bind_blob takes a null data pointer exactly when the
\* length is 0, and then binds the empty blob; a null pointer with a length
\* above 0 and every negative length is rejected with a failed envelope before
\* the lock and the engine, and the bound values stay as they are.
BlobCall(c) ==
    c.op = "turso_statement_bind_blob" /\ c.h # NullHandle /\ c.arg >= 1
BlobRejected(c) == c.val.i < 0 \/ (c.val.s = "null" /\ c.val.i > 0)

C15_NullDataState ==
    \A t \in Threads :
        BlobCall(call[t]) =>
            /\ BlobRejected(call[t]) =>
                   /\ Returned(t) /\ last[t].tag = "invalid_arg"
                   /\ FailedEnvelope(ret[t])
                   /\ \A h \in Lockable : lock[h] # t
            /\ ~BlobRejected(call[t]) => last[t].tag # "invalid_arg"
            /\ (call[t].val.s = "null" /\ last[t].tag # "invalid_arg") =>
                   call[t].val.i = 0
            /\ (Returned(t) /\ last[t].tag = "ok" /\ call[t].val.i = 0) =>
                   ret[t].success /\ params[call[t].h] = Value("Blob", 0, "")

C15_NullDataStep ==
    \A t \in Threads :
        (call'[t] # call[t] /\ BlobCall(call'[t]) /\ BlobRejected(call'[t])) =>
            params' = params /\ lock' = lock /\ row' = row

C15_NullData ==
    /\ []C15_NullDataState
    /\ [][C15_NullDataStep]_vars

C15_Witness ==
    \E t \in Threads :
        /\ Returned(t) /\ BlobCall(call[t])
        /\ call[t].val = Value("Blob", 0, "null")
        /\ last[t].tag = "ok" /\ ret[t].success
        /\ params[call[t].h] = Value("Blob", 0, "")

\* C16 (as the claim states it): with the empty blob bound to the parameter
\* of "SELECT ?1" and the statement stepped to its row, the blob accessor on
\* column 0 reports length 0 and returns a pointer that is not null.
C16_EmptyBlobRoundTrip ==
    \A t \in Threads :
        (/\ scenario.sql = "SELECT ?1"
         /\ Returned(t) /\ call[t].op = "turso_statement_column_blob"
         /\ call[t].arg = 0 /\ last[t].tag = "ok"
         /\ params[call[t].h] = Value("Blob", 0, "")
         /\ row[call[t].h] = params[call[t].h]) =>
            /\ ret[t].kind = "pointer"
            /\ ret[t].out = <<0>>
            /\ ret[t].ptr # NullPtr

\* C17: with a valid UTF-8 text bound to parameter 1 of "SELECT ?1" (the bind
\* hands the engine that text), on the row the statement steps to the type of
\* column 0 is 3 (Text) and the text accessor returns a string equal to the
\* text bound.
TextRow(t) ==
    /\ scenario.sql = "SELECT ?1" /\ Returned(t)
    /\ call[t].h \in Statements /\ call[t].arg = 0 /\ last[t].tag = "ok"
    /\ params[call[t].h].tag = "Text"
    /\ row[call[t].h] = params[call[t].h]

C17_TextRoundTrip ==
    \A t \in Threads :
        /\ (Returned(t) /\ call[t].op = "turso_statement_bind_text"
                /\ last[t].tag = "ok") =>
               /\ ret[t].success
               /\ params[call[t].h] = Value("Text", 0, call[t].val.s)
        /\ (scenario.sql = "SELECT ?1" /\ Returned(t)
                /\ call[t].op = "turso_statement_step" /\ ret[t].int = 1) =>
               row[call[t].h] = Selected(params[call[t].h])
        /\ (TextRow(t) /\ call[t].op = "turso_statement_column_type") =>
               ret[t] = I32(3)
        /\ (TextRow(t) /\ call[t].op = "turso_statement_column_text") =>
               ret[t] = String(params[call[t].h].s)

C17_Witness ==
    \E t \in Threads :
        /\ TextRow(t) /\ call[t].op = "turso_statement_column_text"
        /\ params[call[t].h] = Value("Text", 0, "hello")
        /\ ret[t].ptr = "string" /\ ret[t].out = <<"hello">>

\* C19: begin prepares "BEGIN DEFERRED" for mode 0, "BEGIN IMMEDIATE" for mode 1
\* and "BEGIN EXCLUSIVE" for mode 2 (commit "COMMIT", rollback "ROLLBACK"),
\* and every step of the call is a step of that statement; each of the three
\* returns success exactly when the statement reached Done, and a Row outcome
\* returns a failure envelope.
ControlStatement(c) ==
    CASE c.op = "turso_connection_begin_transaction" /\ c.arg = 0 -> "BEGIN DEFERRED"
      [] c.op = "turso_connection_begin_transaction" /\ c.arg = 1 -> "BEGIN IMMEDIATE"
      [] c.op = "turso_connection_begin_transaction" /\ c.arg = 2 -> "BEGIN EXCLUSIVE"
      [] c.op = "turso_connection_commit_transaction" -> "COMMIT"
      [] c.op = "turso_connection_rollback_transaction" -> "ROLLBACK"
      [] OTHER -> "none"

C19_ControlStatement ==
    \A t \in Threads :
        call[t].op \in TransactionOps =>
            /\ (pc[t] \in {"step", "pump"} \/ outs[t] # <<>>) =>
                    call[t].sql = ControlStatement(call[t])
            /\ Returned(t) =>
                    /\ ret[t].kind = "envelope"
                    /\ ret[t].success <=> FinalOutcome(t) = "Done"
                    /\ FinalOutcome(t) = "Row" =>
                            /\ ~ret[t].success
                            /\ ret[t].error_message # NullMsg

C19_Witness ==
    \E t \in Threads :
        /\ Returned(t) /\ call[t].op = "turso_connection_begin_transaction"
        /\ call[t].arg = 1 /\ call[t].sql = "BEGIN IMMEDIATE"
        /\ outs[t] = <<"IO", "Done">> /\ ret[t].success

\* C20: a connection's tracked mode is Deferred when the connection is
\* created; a begin call with mode 0, 1 or 2 sets it to Deferred, Immediate or
\* Exclusive as the call starts, and it stays so whether the begin then
\* succeeds or fails; a begin call with another mode returns a failure
\* envelope without a lock or an engine call and leaves the mode as it was;
\* no other step of any operation changes the mode of a live connection.
ModeOf(behavior) ==
    CASE behavior = 0 -> "Deferred"
      [] behavior = 1 -> "Immediate"
      [] behavior = 2 -> "Exclusive"
      [] OTHER -> "none"

BeginCall(c) == c.op = "turso_connection_begin_transaction" /\ c.h # NullHandle

C20_TrackedState ==
    /\ \A h \in Connections \ live : transaction_behavior[h] = "Deferred"
    /\ \A t \in Threads :
        (Returned(t) /\ BeginCall(call[t])) =>
            IF call[t].arg \in {0, 1, 2}
            THEN transaction_behavior[call[t].h] = ModeOf(call[t].arg)
            ELSE /\ FailedEnvelope(ret[t])
                 /\ last[t].tag = "invalid_behavior"
                 /\ outs[t] = <<>> /\ pumps[t] = 0

C20_TrackedStep ==
    /\ \A h \in Connections :
        /\ (h \notin live /\ h \in live') => transaction_behavior'[h] = "Deferred"
        /\ (transaction_behavior'[h] # transaction_behavior[h] /\ h \in live') =>
                \E t \in Threads :
                    /\ pc[t] = "idle" /\ pc'[t] # "idle"
                    /\ BeginCall(call'[t]) /\ call'[t].h = h
                    /\ call'[t].arg \in {0, 1, 2}
    /\ \A t \in Threads :
        (pc[t] = "idle" /\ pc'[t] # "idle" /\ BeginCall(call'[t])) =>
            IF call'[t].arg \in {0, 1, 2}
            THEN transaction_behavior'[call'[t].h] = ModeOf(call'[t].arg)
            ELSE /\ transaction_behavior' = transaction_behavior
                 /\ pc'[t] = "done" /\ lock' = lock

C20_TrackedMode == []C20_TrackedState /\ [][C20_TrackedStep]_vars

C20_Witness ==
    \E t \in Threads :
        /\ Returned(t) /\ BeginCall(call[t]) /\ call[t].arg = 2
        /\ last[t].tag = "busy" /\ ~ret[t].success
        /\ transaction_behavior[call[t].h] = "Exclusive"

\* C18: turso_connection_is_autocommit reports the engine's autocommit state
\* and never changes it.  A successful begin (with mode 0, 1 or 2) leaves the
\* connection out of autocommit, so is_autocommit then reports false; in a host
\* that begins, commits and asks, the state stays so until a commit succeeds,
\* and after a successful commit is_autocommit reports true.
IsAutocommitCall(t) ==
    /\ Returned(t) /\ call[t].op = "turso_connection_is_autocommit"
    /\ last[t].tag = "ok"

Succeeds(t, op) ==
    /\ pc[t] # "done" /\ pc'[t] = "done" /\ call'[t].op = op
    /\ ret'[t].kind = "envelope" /\ ret'[t].success

C18_AutocommitState ==
    \A t \in Threads :
        IsAutocommitCall(t) =>
            /\ ret[t].kind = "envelope" /\ ret[t].success
            /\ ret[t].out = <<IF auto_commit[call[t].h] THEN 1 ELSE 0>>

C18_AutocommitStep ==
    \A t \in Threads :
        /\ (call[t].op = "turso_connection_is_autocommit"
                \/ call'[t].op = "turso_connection_is_autocommit") =>
                auto_commit' = auto_commit
        /\ (Succeeds(t, "turso_connection_begin_transaction")
                /\ call'[t].arg \in {0, 1, 2}) => ~auto_commit'[call'[t].h]
        /\ Succeeds(t, "turso_connection_commit_transaction") =>
                auto_commit'[call'[t].h]
        /\ scenario = TransactionScenario =>
                \A h \in Connections :
                    (~auto_commit[h] /\ auto_commit'[h] /\ h \in live') =>
                        \E u \in Threads :
                            /\ Succeeds(u, "turso_connection_commit_transaction")
                            /\ call'[u].h = h

C18_Autocommit == []C18_AutocommitState /\ [][C18_AutocommitStep]_vars

C18_Witness ==
    \E t \in Threads :
        /\ scenario = TransactionScenario /\ IsAutocommitCall(t)
        /\ ~auto_commit[call[t].h] /\ ret[t].out = <<0>>
        /\ transaction_behavior[call[t].h] = "Immediate"

\* C21: turso_connection_query_scalar_int returns a success envelope, with the
\* value written, exactly when its statement's first outcome (after the IO
\* rounds) is a Row whose column 0 is an Integer, and a failure envelope with
\* nothing written otherwise; turso_connection_query_scalar_string returns a
\* string only when that first row's column 0 is Text, the string being that
\* text, and the null pointer when there is no row, another kind or an error.
FirstRow(t) ==
    /\ FinalOutcome(t) = "Row"
    /\ \A i \in 1..(Len(outs[t]) - 1) : outs[t][i] = "IO"

C21_ScalarReaders ==
    \A t \in Threads :
        Returned(t) =>
            /\ call[t].op = "turso_connection_query_scalar_int" =>
                    /\ ret[t].kind = "envelope"
                    /\ ret[t].success <=> (FirstRow(t) /\ last[t].val.tag = "Integer")
                    /\ ret[t].success => ret[t].out = <<last[t].val.i>>
                    /\ ~ret[t].success =>
                            ret[t].out = <<>> /\ ret[t].error_message # NullMsg
            /\ call[t].op = "turso_connection_query_scalar_string" =>
                    /\ ret[t].kind = "pointer"
                    /\ ret[t].ptr # NullPtr =>
                            /\ FirstRow(t) /\ last[t].val.tag = "Text"
                            /\ ret[t].out = <<last[t].val.s>>
                    /\ (~FirstRow(t) \/ last[t].val.tag # "Text") =>
                            ret[t].ptr = NullPtr

C21_Witness ==
    \E t \in Threads :
        /\ Returned(t) /\ call[t].op = "turso_connection_query_scalar_int"
        /\ outs[t] = <<"IO", "Row">> /\ last[t].val = Value("Integer", 42, "")
        /\ ret[t].success /\ ret[t].out = <<42>>

\* C22: a column accessor called on a live handle with no current row (never
\* stepped, stepped to Done, or reset), whatever its index from 0 up, can run
\* to its end; where it does it returns the no-row value of its type: -1 from
\* column_type, 0 from column_int64, 0.0 from column_double, null from
\* column_text, null with length 0 from column_blob, true from column_is_null;
\* and it leaves the handle's lock free and unpoisoned.
NoRowCall(t) ==
    /\ call[t].op \in ColumnValueOps
    /\ last[t].tag = "ok" /\ last[t].val = NoRow

C22_NoRowState ==
    \A t \in Threads :
        /\ (Returned(t) /\ NoRowCall(t)) =>
            /\ call[t].op \in ColumnTypeOps => ret[t].kind = "i32" /\ ret[t].int = -1
            /\ call[t].op \in ColumnInt64Ops => ret[t].kind = "i64" /\ ret[t].int = 0
            /\ call[t].op \in ColumnDoubleOps => ret[t].kind = "f64" /\ ret[t].int = 0
            /\ call[t].op \in ColumnTextOps => IsNullPointer(ret[t])
            /\ call[t].op \in ColumnBlobOps =>
                    IsNullPointer(ret[t]) /\ ret[t].out = <<0>>
            /\ call[t].op \in ColumnIsNullOps => ret[t].kind = "bool" /\ ret[t].int = 1
        /\ (pc[t] = "engine" /\ call[t].op \in ColumnValueOps
                /\ row[call[t].h] = NoRow) =>
            ENABLED (EngineCall(t) /\ last'[t].tag = "ok")

C22_NoRowStep ==
    \A t \in Threads :
        (pc[t] = "engine" /\ pc'[t] = "done" /\ NoRowCall(t)') =>
            /\ row[call[t].h] = NoRow
            /\ poisoned' = poisoned
            /\ lock'[call[t].h] = NoThread

C22_NoRow == []C22_NoRowState /\ [][C22_NoRowStep]_vars

C22_Witness ==
    \E t \in Threads :
        /\ Returned(t) /\ NoRowCall(t)
        /\ call[t].op = "turso_statement_column_is_null" /\ call[t].arg = 1
        /\ ret[t].int = 1 /\ ~poisoned[call[t].h]

\* C23: column_type returns a value of {-1, 0, 1, 2, 3, 4}; where it reads the
\* value of a result column of the current row it returns 0 for Null, 1 for
\* Integer, 2 for Float, 3 for Text and 4 for Blob; it returns -1 for a null
\* handle, a negative index and a missing row; column_is_null, reading the
\* value of a column of the current row, returns true exactly for the value
\* column_type returns 0 for.
ReadsValue(t) ==
    /\ Returned(t) /\ last[t].tag = "ok" /\ last[t].val # NoRow

C23_ColumnType ==
    \A t \in Threads :
        /\ (Returned(t) /\ call[t].op \in ColumnTypeOps) =>
            /\ ret[t].kind = "i32" /\ ret[t].int \in {-1, 0, 1, 2, 3, 4}
            /\ ReadsValue(t) =>
                    /\ call[t].arg \in 0..(scenario.columns - 1)
                    /\ ret[t].int = 0 <=> last[t].val.tag = "Null"
                    /\ ret[t].int = 1 <=> last[t].val.tag = "Integer"
                    /\ ret[t].int = 2 <=> last[t].val.tag = "Float"
                    /\ ret[t].int = 3 <=> last[t].val.tag = "Text"
                    /\ ret[t].int = 4 <=> last[t].val.tag = "Blob"
            /\ (call[t].h = NullHandle \/ call[t].arg < 0
                    \/ (last[t].tag = "ok" /\ last[t].val = NoRow)) =>
                    ret[t].int = -1
        /\ (ReadsValue(t) /\ call[t].op \in ColumnIsNullOps) =>
            /\ ret[t].kind = "bool"
            /\ ret[t].int = 1 <=> last[t].val.tag = "Null"

C23_Witness ==
    \E t \in Threads :
        /\ ReadsValue(t) /\ call[t].op = "turso_rows_column_type"
        /\ last[t].val.tag = "Blob" /\ ret[t].int = 4

\* C24 (as the claim states it): the text accessor, reading a Text, Integer or
\* Float value of the current row, returns a string.
C24_TextAlways ==
    \A t \in Threads :
        (ReadsValue(t) /\ call[t].op \in ColumnTextOps
            /\ last[t].val.tag \in {"Text", "Integer", "Float"}) =>
            ~IsNullPointer(ret[t])

\* C24: the text accessor, reading a value of the current row, returns the
\* decimal string of an Integer ("42" for 42) or a Float ("1.5" for 1.5) and
\* the text of a Text that holds no NUL byte; it returns the null pointer for
\* Null, for Blob, and for a Text with a NUL byte in it.
C24_TextAccessor ==
    \A t \in Threads :
        (ReadsValue(t) /\ call[t].op \in ColumnTextOps) =>
            LET v == last[t].val IN
            /\ ret[t].kind = "pointer"
            /\ v = Value("Integer", 42, "") => ret[t].ptr # NullPtr /\ ret[t].out = <<"42">>
            /\ v = Value("Float", 15, "") => ret[t].ptr # NullPtr /\ ret[t].out = <<"1.5">>
            /\ v = Value("Text", 0, "hello") =>
                    ret[t].ptr # NullPtr /\ ret[t].out = <<"hello">>
            /\ IsNullPointer(ret[t]) <=>
                    \/ v.tag \in {"Null", "Blob"}
                    \/ v = Value("Text", 0, "bad\\0text")

C24_Witness ==
    \E t \in Threads :
        /\ ReadsValue(t) /\ call[t].op = "turso_statement_column_text"
        /\ last[t].val.tag = "Float" /\ ret[t].out = <<"1.5">>

\* C25: column_name on a live handle returns the name the engine reports, as
\* an owned string, for an index from 0 to column_count - 1 (where the call
\* does not fail), and the null pointer for a negative index (before the body)
\* and for an index of column_count or more.
NameCall(t) ==
    /\ Returned(t) /\ call[t].op \in ColumnNameOps /\ call[t].h # NullHandle

CountCall(t) == call[t].op \in ColumnCountOps /\ call[t].h # NullHandle

C26_ColumnCount ==
    \A t \in Threads :
        /\ (Returned(t) /\ call[t].op \in StepOps /\ FinalOutcome(t) = "Done") =>
            /\ ret[t].kind = "i32" /\ ret[t].int = 0
            /\ exhausted[call[t].h] /\ row[call[t].h] = NoRow
        /\ (Returned(t) /\ CountCall(t) /\ last[t].tag = "ok") =>
            /\ ret[t].kind = "i32"
            /\ ret[t].int = scenario.columns /\ ret[t].int >= 0
        /\ (pc[t] = "engine" /\ CountCall(t)) =>
            ENABLED (EngineCall(t) /\ last'[t].tag = "ok")

C26_Witness ==
    \E t \in Threads :
        /\ Returned(t) /\ CountCall(t) /\ last[t].tag = "ok"
        /\ exhausted[call[t].h] /\ scenario.columns = 1 /\ ret[t].int = 1

\* C27: a turso_statement_reset that runs to its end leaves the statement
\* Ready (no current row, not at Done) and every bound parameter as it was;
\* no step of a reset call changes a parameter; a bind that runs to its end
\* after it succeeds and sets the parameter; and a step of "SELECT ?1" that
\* yields a row yields the value the parameter holds at that step.
ResetCall(t) == call[t].op = "turso_statement_reset" /\ call[t].h # NullHandle

C27_ResetState ==
    \A t \in Threads :
        /\ (Returned(t) /\ ResetCall(t) /\ last[t].tag = "ok") =>
            /\ ret[t].kind = "envelope" /\ ret[t].success
            /\ row[call[t].h] = NoRow /\ ~exhausted[call[t].h]
        /\ (Returned(t) /\ call[t].op \in BindOps /\ last[t].tag = "ok") =>
            /\ ret[t].success
            /\ params[call[t].h] # Unbound
        /\ (pc[t] = "step" /\ call[t].op = "turso_statement_step"
                /\ scenario.sql = "SELECT ?1"
                /\ row[call[t].h] = NoRow /\ ~exhausted[call[t].h]) =>
            ENABLED (Step(t) /\ last'[t].tag = "row")

C27_ResetStep ==
    \A t \in Threads :
        /\ (ResetCall(t) \/ ResetCall(t)') => params' = params
        /\ (pc[t] = "engine" /\ pc'[t] = "done" /\ ResetCall(t)
                /\ last'[t].tag = "ok") =>
            /\ row'[call[t].h] = NoRow /\ ~exhausted'[call[t].h]
        /\ (pc[t] = "step" /\ last'[t].tag = "row" /\ scenario.sql = "SELECT ?1"
                /\ call[t].op = "turso_statement_step") =>
            /\ params[call[t].h] # Unbound => row'[call[t].h] = params[call[t].h]
            /\ params[call[t].h] = Unbound => row'[call[t].h].tag = "Null"

C27_ResetKeepsParams == []C27_ResetState /\ [][C27_ResetStep]_vars

C27_Witness ==
    \E t \in Threads :
        /\ Returned(t) /\ ResetCall(t) /\ last[t].tag = "ok"
        /\ scenario.sql = "SELECT ?1"
        /\ params[call[t].h] = Value("Text", 0, "hello")

\* C28: every wrapper comes with a Mutex of its own, free and unpoisoned when
\* the wrapper is created; a thread holds no Mutex but that of the handle of
\* its call, and a step changes no other; so a call waiting for the Mutex of
\* its handle goes on as soon as that one Mutex is free, whatever other
\* thread holds the Mutex of another handle (of two statements of one
\* connection, or of a statement and its connection).
C28_OwnLockState ==
    /\ \A h \in Lockable : lock[h] # NoThread => call[lock[h]].h = h
    /\ \A t \in Threads :
        (pc[t] = "lock" /\ lock[call[t].h] = NoThread) => ENABLED Acquire(t)

C28_OwnLockStep ==
    \A h \in Lockable :
        /\ (h \notin live /\ h \in live') => lock'[h] = NoThread /\ ~poisoned'[h]
        /\ lock'[h] # lock[h] =>
                \E t \in Threads :
                    /\ call[t].h = h /\ pc'[t] # pc[t]
                    /\ lock[h] = t \/ lock'[h] = t

C28_OwnLock == []C28_OwnLockState /\ [][C28_OwnLockStep]_vars

C28_Witness ==
    /\ lock["rows"] = "t2" /\ lock["stmt"] = "t1"
    /\ InEngine("t1") /\ InEngine("t2")

Underlying(h) ==
    [live |-> h \in live, row |-> row[h], exhausted |-> exhausted[h],
     poisoned |-> poisoned[h], locked |-> lock[h] # NoThread]

Underlyings ==
    [live : BOOLEAN, row : Values \cup {NoRow}, exhausted : BOOLEAN,
     poisoned : BOOLEAN, locked : BOOLEAN]

\* A return value without the text of its failure message, which names the
\* function.
Unnamed(r) ==
    [r EXCEPT !.error_message = IF @ = NullMsg THEN NullMsg ELSE Literal("failure")]

\* What a caller sees of a call: where it stands, the handle and index it
\* passed, what came back.
Seen(t) ==
    [pc |-> pc[t], null |-> call[t].h = NullHandle, arg |-> call[t].arg,
     ret |-> Unnamed(ret[t]), crossed |-> crossed[t]]

Returns ==
    {NoRet, Pointer(NullPtr), TursoFFIResult_success(<<>>),
     TursoFFIResult_error(Literal("failure"))}
    \cup {I32(n) : n \in -1..4} \cup {I64(n) : n \in {0, 42}} \cup {F64(n) : n \in {0, 15, 42}}
    \cup {Bool(b) : b \in BOOLEAN}
    \cup {String(text) : text \in {"hello", "42", "1.5", "", "0"} \cup ColumnNames}
    \cup {Result("pointer", FALSE, NullMsg, p, 0, <<n>>) : p \in {NullPtr, "blob"}, n \in {0, 2}}

Seens ==
    [pc : {"idle", "lock", "step", "pump", "engine", "done"}, null : BOOLEAN,
     arg : ColumnIndexes, ret : Returns, crossed : BOOLEAN]

\* A statement call of t and the call of its Rows counterpart by u, with the
\* same arguments, at the same place, for which the engine did the same so
\* far, on statements in the same state.
Counterparts(t, u) ==
    /\ call[t].h \in Statements /\ call[u].h \in RowsHandles
    /\ call[u].op = RowsOperation(call[t].op)
    /\ call[u].arg = call[t].arg
    /\ pc[t] = pc[u] /\ pc[t] \notin {"idle", "done"}
    /\ outs[t] = outs[u] /\ pumps[t] = pumps[u] /\ last[t] = last[u]
    /\ Underlying(call[t].h) = [Underlying(call[u].h) EXCEPT !.locked = @]
    /\ (lock[call[t].h] = t) = (lock[call[u].h] = u)

\* Two callers about to call, one a Statement operation and the other its Rows
\* counterpart, on statements in the same state.
Calls(t, u, op) ==
    /\ t # u /\ pc[t] = "idle" /\ pc[u] = "idle"
    /\ op \in scenario.ops[t] /\ RowsOperation(op) \in scenario.ops[u]
    /\ Underlying("stmt") = Underlying("rows")

\* The steps A of t on the statement s and B of u on the rows r lead to the
\* same: whatever the caller sees after one and whatever state it leaves, the
\* other can do.
Alike(A, B, t, u, s, r) ==
    /\ \A o \in Seens : o.pc # pc[t] =>
            (ENABLED (A /\ Seen(t)' = o) <=> ENABLED (B /\ Seen(u)' = o))
    /\ \A x \in Underlyings :
            ENABLED (A /\ Underlying(s)' = x) <=> ENABLED (B /\ Underlying(r)' = x)

WritesMode(t) ==
    /\ BeginCall(call'[t]) /\ call'[t].arg \in {0, 1, 2}
    /\ pc[t] = "idle" /\ pc'[t] # "idle"

\* The thread's begin_transaction call, with a valid mode, ends with its
\* BEGIN statement driven to Done.
DrivesBegin(t) ==
    /\ BeginCall(call[t]) /\ call[t].arg \in {0, 1, 2}
    /\ pc[t] = "step" /\ pc'[t] = "done" /\ last'[t].tag = "done"

\* C30: the tracked mode is written under the connection's lock, together
\* with the BEGIN statement: the thread that stores the mode holds the lock,
\* no other thread is then inside an operation on the connection, and once
\* the BEGIN of a call is driven after another begin_transaction call on the
\* connection returned, the tracked mode is the mode of the later BEGIN.
C30_ModeUnderLock ==
    [][\A t \in Threads :
        /\ WritesMode(t) =>
                /\ lock'[call'[t].h] = t
                /\ \A u \in Threads \ {t} :
                        ~(call[u].h = call'[t].h /\ pc[u] \notin {"idle", "done"})
        /\ (/\ DrivesBegin(t)
            /\ \A u \in Threads \ {t} :
                    /\ BeginCall(call[u]) /\ call[u].h = call[t].h
                    /\ pc[u] = "done" /\ last[u].tag = "done")
                => transaction_behavior'[call[t].h] = Behavior(call[t].arg)]_vars

\* The operations that read a column, its name or the number of columns.
AccessorOps == ColumnCountOps \cup ColumnNameOps \cup ColumnValueOps

InCall(t) == pc[t] \notin {"idle", "done"}

\* The thread makes a new call.
Starts(t) == pc[t] = "idle" /\ pc'[t] # "idle"

\* No thread holds two locks, and a thread that waits for a lock holds none;
\* while calls are under way, one of them can take its next step.
C32_OneLock ==
    /\ \A t \in Threads : Cardinality({h \in Lockable : lock[h] = t}) <= 1
    /\ \A t \in Threads : pc[t] = "lock" => \A h \in Lockable : lock[h] # t
    /\ (\E t \in Threads : InCall(t)) => \E t \in Threads : InCall(t) /\ ENABLED Progress(t)

\* C32: no operation holds more than one wrapper lock or waits for a lock
\* while it holds one, so concurrent calls cannot deadlock: where the engine
\* calls return (each step of a call is taken in the end) and no further
\* calls keep coming, every call under way returns.
C32_NoDeadlock ==
    /\ []C32_OneLock
    /\ (<>[][\A u \in Threads : ~Starts(u)]_vars) =>
            \A t \in Threads : InCall(t) ~> Returned(t)

C32_Witness ==
    \E t, u \in Threads :
        /\ pc[t] = "lock" /\ call[t].op \in PrepareOps
        /\ lock[call[t].h] = u /\ pc[u] = "prepare" /\ call[u].op \in PrepareOps
        /\ \E h \in Prepared : h \in live

\* The operations that hand a value back through a pointer beside the envelope.
OutParamOps ==
    {"turso_connection_execute", "turso_connection_query_scalar_int",
     "turso_connection_is_autocommit"}

\* C33: execute, query_scalar_int and is_autocommit write their out-parameter
\* only where they return a success envelope: with a failure envelope nothing
\* was written, with a success envelope exactly the one value was (the change
\* count at Done, the Integer of the first row, the autocommit flag), and
\* execute with a null rows_changed pointer succeeds and writes nothing.
C33_OutParams ==
    \A t \in Threads :
        (Returned(t) /\ call[t].op \in OutParamOps) =>
            /\ ret[t].kind = "envelope"
            /\ ~ret[t].success => ret[t].out = <<>>
            /\ ret[t].success =>
                    CASE call[t].op = "turso_connection_execute" ->
                            /\ last[t].tag = "done"
                            /\ ret[t].out = IF call[t].arg = 1 THEN <<last[t].n>> ELSE <<>>
                      [] call[t].op = "turso_connection_query_scalar_int" ->
                            /\ last[t].tag = "row" /\ last[t].val.tag = "Integer"
                            /\ call[t].arg = 1 /\ ret[t].out = <<last[t].val.i>>
                      [] OTHER ->
                            /\ last[t].tag = "ok"
                            /\ call[t].arg = 1 /\ ret[t].out = <<last[t].n>>

C33_Witness ==
    \E t \in Threads :
        /\ Returned(t) /\ call[t].op = "turso_connection_execute" /\ call[t].arg = 1
        /\ outs[t] = <<"IO", "Busy">> /\ FailedEnvelope(ret[t]) /\ ret[t].out = <<>>

\* The thread's step is a call of turso_free_error_message.
FreesMessage(t) ==
    pc[t] = "idle" /\ pc'[t] = "done" /\ call'[t].op = "turso_free_error_message"

\* C34: a call of turso_free_error_message on a failed envelope that still
\* has its message releases it and sets error_message to null; a call on an
\* envelope whose message is null (a success, or one freed before) or with a
\* null pointer releases nothing and changes nothing; no call changes the
\* success field, and nothing else touches the envelope, so that its message
\* is released at most once.
C34_FreeOnce ==
    [][/\ kept'.success = kept.success
       /\ kept.error_message = NullMsg => kept' = kept
       /\ kept' # kept => \E t \in Threads : FreesMessage(t)
       /\ \A t \in Threads :
            (FreesMessage(t) /\ last'[t].tag = "ok") =>
                IF call'[t].arg = 1 /\ kept.error_message # NullMsg
                THEN /\ last'[t].n = 1
                     /\ kept' = [kept EXCEPT !.error_message = NullMsg]
                ELSE last'[t].n = 0 /\ kept' = kept]_vars

C34_Witness ==
    \E t \in Threads :
        /\ Returned(t) /\ call[t].op = "turso_free_error_message" /\ call[t].arg = 1
        /\ scenario.kept.error_message # NullMsg /\ ~scenario.kept.success
        /\ kept.error_message = NullMsg /\ ~kept.success
        /\ last[t].tag = "ok" /\ last[t].n = 0

====
